---- MODULE Spec2Model ----
(***************************************************************************)
(* Ride pooling back end: group formation (QueueService), the periodic     *)
(* dispatch sweep (SmartDispatchService) and the scoring it uses           *)
(* (ProbabilityCalculator, ProximityAnalyzer, HistoricalLearner).          *)
(*                                                                         *)
(* The database is the shared state.  Each request handler and the sweep   *)
(* work through their own SQLAlchemy session: a row read into a session    *)
(* stays as it was read until the session commits (commit expires every    *)
(* loaded object), and a commit writes the columns the handler assigned,   *)
(* with the values it computed from what it had read.                      *)
(*                                                                         *)
(* Scores are kept in hundredths (a score of 34.5 is 3450), so the         *)
(* weighted sum of calculate_final_probability is exact integer            *)
(* arithmetic.  Times are seconds.                                         *)
(***************************************************************************)
EXTENDS Integers, Sequences, FiniteSets, TLC

VARIABLES
    now,          \* datetime.utcnow(), seconds
    groups,       \* table ride_groups: sequence indexed by id
    members,      \* table group_members, kept in joined_at order
    bookings,     \* table booking_requests: sequence indexed by id
    historical,   \* table historical_arrival_data for the current day and hour
    decisionLog,  \* table dispatch_decisions_log, append only
    workers,      \* request handlers: the session state of a join or leave in progress
    sweep,        \* the scheduler's job: the session state of run_dispatch_analysis
    scheduler,    \* the module global of app.ai.scheduler and its job store
    calculator,   \* a call of ProbabilityCalculator made on its own: arguments and result
    learner,      \* table historical_arrival_data as build_historical_data keeps it, and its runs
    rides,        \* table rides, indexed by id
    accepts       \* accept_group_assignment in progress, by driver: its session state

vars == <<now, groups, members, bookings, historical, decisionLog, workers, sweep, scheduler,
          calculator, learner, rides, accepts>>

----------------------------------------------------------------------------
(* Bounds of the model *)

MaxJoins == 2         \* join requests over the whole run
MaxSweeps == 1        \* sweeps over the whole run
MaxCalls == 3         \* calls of the scheduler's start and stop
MaxSkipped == 2       \* ticks of the trigger that arrive while a sweep runs

(* Program constants *)

None == -1                              \* SQL NULL / Python None in a numeric column
DEFAULT_MAX_SIZE == 4                   \* max_size of a new group
TOO_YOUNG_SECONDS == 60                 \* a younger group is skipped by the sweep
PROBABILITY_THRESHOLD_LOW == 20
PROBABILITY_THRESHOLD_HIGH == 80
MIN_WAIT_TIME_SECONDS == 180
MAX_WAIT_TIME_SECONDS == 600
RECENT_BOOKING_WINDOW_SECONDS == 120
NO_PENDING_DISTANCE == 9999             \* nearest distance when nothing is pending
NEUTRAL_PROBABILITY == 50               \* arrival probability without historical data
FULL_GROUP_SCORE == 100                 \* probability passed for a full group
MAX_INSTANCES == 1                      \* max_instances of the sweep job

(* The world the handlers are called from *)

Gender == <<"MALE", "FEMALE", "MALE", "MALE", "MALE", "MALE", "MALE">>  \* users.gender, by user id
Users == DOMAIN Gender
Requesters == {1, 2, 3}                 \* users who send requests during a run
EarlierRiders == Users \ Requesters     \* users who may have joined before the run
Callers == {1, 2}                       \* the requesters of a run of one handler
Preferences == BOOLEAN                  \* and the women_only they may pass
ConcCallers == {1, 3}                   \* the requesters of a run of concurrent handlers
ConcPreferences == {FALSE}
Routes == {1}                           \* active routes
Workers == {"w1", "w2"}                 \* request handlers that may run at once
Deliveries == {"sent", "failed"}        \* what becomes of a notification handed to Socket.IO
Drivers == {1}                          \* drivers.id of the carriers that accept groups
TimePoints == {0, 181, 601}             \* instants at which something happens
JoinDistances == {300}                  \* metres from the route origin to a requester
HistoricalScores == {None}              \* the hour's arrival_probability_score (None: no row)
SeedSizes == {0, 1, 2, 3}               \* members of the group formed before the run
ConcTimePoints == {0, 601}
ConcSeedSizes == {3}
FailTimes == {59, 61, 601}              \* when a sweep meets a leave
FailSizes == {1, 2}                     \* members of the leaver's group
FailOtherSizes == {2, 4}                \* members of the other group
SchedSizes == {2, 4}                    \* members of the group the scheduled sweep finds
MatchSizes == {0, 1, 2, 3, 4}           \* members of a group a join may find
EvalTimes == {59, 60, 61, 180, 181, 299, 300, 600, 601}     \* when one group is evaluated
EvalSizes == {1, 2, 3, 4}                                   \* its current_size
EvalPending == {0, 1, 2, 3}                                 \* bookings still SEARCHING
EvalDistances == {199, 200, 499, 500, 999, 1000}            \* the nearest of them, metres
EvalAges == {0, 120, 121}                                   \* their age, seconds
EvalHistoricalScores == {None, 25, 50, 85, 100}

----------------------------------------------------------------------------
(* Rows *)

NoToken == <<>>

\* RideGroup(route_id, women_only, FORMING, current_size=0, max_size=4)
NewGroup(route_id, women_only) ==
    [ status |-> "FORMING",
      route_id |-> route_id,
      current_size |-> 0,
      max_size |-> DEFAULT_MAX_SIZE,
      women_only |-> women_only,
      first_user_joined_at |-> None,
      dispatched_at |-> None,
      dispatch_decision_type |-> "NONE",
      dispatch_probability_score |-> None,
      assigned_driver_id |-> None,
      qr_code |-> NoToken ]

\* what is left at the id of a deleted ride_groups row
DeletedGroup ==
    [ status |-> "DELETED",
      route_id |-> 0,
      current_size |-> 0,
      max_size |-> 0,
      women_only |-> FALSE,
      first_user_joined_at |-> None,
      dispatched_at |-> None,
      dispatch_decision_type |-> "NONE",
      dispatch_probability_score |-> None,
      assigned_driver_id |-> None,
      qr_code |-> NoToken ]

GroupIds == DOMAIN groups
RowExists(g) == g \in GroupIds /\ groups[g].status # "DELETED"

\* is_full with the comparison made strict
is_full_Strict(group) == group.current_size > group.max_size

\* RideGroup.is_full
is_full(group) == group.current_size >= group.max_size

\* RideGroup.can_accept_user
can_accept_user(group, user) ==
    /\ ~is_full(group)
    /\ ~(group.women_only /\ Gender[user] # "FEMALE")

\* RideGroup.get_wait_time_seconds
get_wait_time_seconds(group) ==
    IF group.first_user_joined_at = None THEN 0
    ELSE now - group.first_user_joined_at

\* generate_qr_code: RQ-{group_id}-{timestamp}
generate_qr_code(group_id) == <<"RQ", group_id, now>>

\* BookingRequest(user_id, route_id, ..., request_status="SEARCHING")
NewBooking(user, route, women_only, dist) ==
    [ user_id |-> user,
      route_id |-> route,
      request_status |-> "SEARCHING",
      group_id |-> None,
      women_only_preference |-> women_only,
      request_distance |-> dist,
      requested_at |-> now,
      grouped_at |-> None ]

\* the member rows of a group, as indexes into members
MembersOf(g) == { i \in DOMAIN members : members[i].group_id = g }

\* rows of a sequence without the indexes in drop, order kept
RECURSIVE Without(_, _)
Without(seq, drop) ==
    IF seq = <<>> THEN <<>>
    ELSE LET rest == Without(Tail(seq), { i - 1 : i \in drop \ {1} })
         IN  IF 1 \in drop THEN rest ELSE <<Head(seq)>> \o rest

----------------------------------------------------------------------------
(* ProbabilityCalculator.  Component scores are whole numbers 0..100; the  *)
(* weights 0.40, 0.35, 0.15, 0.10 become 40, 35, 15, 10 and the result is  *)
(* in hundredths, so round(x, 2) changes nothing.                          *)

Min(a, b) == IF a < b THEN a ELSE b
Max(a, b) == IF a > b THEN a ELSE b

\* clip without the upper bound
clip_NoUpper(x, lo, hi) == Max(lo, x)

\* np.clip(x, lo, hi)
clip(x, lo, hi) == Max(lo, Min(x, hi))

\* ProbabilityCalculator._normalize_historical
normalize_historical(historical_prob) == clip(historical_prob, 0, 100)

\* calculate_proximity_score with the count factor full from one pending booking on
calculate_proximity_score_OneIsEnough(pending_count, nearest_distance) ==
    IF pending_count = 0 THEN 0
    ELSE Min(pending_count * 50, 50) +
         ( IF nearest_distance < 200 THEN 50
           ELSE IF nearest_distance < 500 THEN 30
           ELSE IF nearest_distance < 1000 THEN 10
           ELSE 0 )

\* ProbabilityCalculator._calculate_proximity_score
calculate_proximity_score(pending_count, nearest_distance) ==
    IF pending_count = 0 THEN 0
    ELSE Min(pending_count * 20, 50) +
         ( IF nearest_distance < 200 THEN 50
           ELSE IF nearest_distance < 500 THEN 30
           ELSE IF nearest_distance < 1000 THEN 10
           ELSE 0 )

\* calculate_wait_time_score that rises again from ten minutes on
calculate_wait_time_score_Rebound(wait_time_seconds) ==
    IF wait_time_seconds < 1 * 60 THEN 80
    ELSE IF wait_time_seconds < 3 * 60 THEN 60
    ELSE IF wait_time_seconds < 5 * 60 THEN 40
    ELSE IF wait_time_seconds < 10 * 60 THEN 20
    ELSE 50

\* ProbabilityCalculator._calculate_wait_time_score (wait_minutes = seconds / 60)
calculate_wait_time_score(wait_time_seconds) ==
    IF wait_time_seconds < 1 * 60 THEN 80
    ELSE IF wait_time_seconds < 3 * 60 THEN 60
    ELSE IF wait_time_seconds < 5 * 60 THEN 40
    ELSE IF wait_time_seconds < 10 * 60 THEN 20
    ELSE 5

\* ProbabilityCalculator._calculate_group_size_score (fill_ratio = current / max)
calculate_group_size_score(current_size, max_size) ==
    IF 4 * current_size >= 3 * max_size THEN 90
    ELSE IF 2 * current_size >= max_size THEN 60
    ELSE IF 4 * current_size >= max_size THEN 30
    ELSE 10

\* ProbabilityCalculator.calculate_final_probability, in hundredths
calculate_final_probability(historical_prob, pending_count, nearest_distance, wait_time, current_size, max_size) ==
    clip( normalize_historical(historical_prob) * 40
          + calculate_proximity_score(pending_count, nearest_distance) * 35
          + calculate_wait_time_score(wait_time) * 15
          + calculate_group_size_score(current_size, max_size) * 10,
          0, 100 * 100 )

\* no call of the calculator on its own has been made
NoCall ==
    [ historical_prob |-> None, pending_count |-> 0, nearest_distance |-> 0, wait_time |-> 0,
      current_size |-> 0, max_size |-> 0, called |-> FALSE, result |-> None ]

----------------------------------------------------------------------------
(* HistoricalLearner.build_historical_data.  Instant 0 is the midnight     *)
(* that opens a Monday.  A row of historical_arrival_data is known by its  *)
(* natural key; the surrogate id is left out.  avg_bookings_per_30min is   *)
(* kept in thousandths.                                                    *)

SECONDS_PER_DAY == 86400
SECONDS_PER_HOUR == 3600
DAYS_PER_WEEK == 7

\* requested_at.weekday() + 1
day_of_week(t) == ((t \div SECONDS_PER_DAY) % DAYS_PER_WEEK) + 1

\* requested_at.hour
hour_of_day(t) == (t % SECONDS_PER_DAY) \div SECONDS_PER_HOUR

\* f"{hour:02d}:00-{hour:02d}:30"
time_slot(hour) == <<hour, 0, hour, 30>>

\* the bookings of the route requested since the cutoff
LookbackBookings(route_id, lookback_days) ==
    { b \in DOMAIN bookings :
        /\ bookings[b].route_id = route_id
        /\ bookings[b].requested_at >= now - lookback_days * SECONDS_PER_DAY }

\* time_buckets: the keys, and the bookings under a key
BucketKeys(bs) ==
    { <<day_of_week(bookings[b].requested_at), hour_of_day(bookings[b].requested_at)>> : b \in bs }

BucketBookings(bs, key) ==
    { b \in bs : /\ day_of_week(bookings[b].requested_at) = key[1]
                 /\ hour_of_day(bookings[b].requested_at) = key[2] }

\* wait_times of a bucket: the bookings that have a grouped_at
Waited(bs) == { b \in bs : bookings[b].grouped_at # None }

RECURSIVE SumWaits(_)
SumWaits(bs) ==
    IF bs = {} THEN 0
    ELSE LET b == CHOOSE x \in bs : TRUE
         IN (bookings[b].grouped_at - bookings[b].requested_at) + SumWaits(bs \ {b})

\* HistoricalLearner._calculate_probability_score.  The averages are given
\* as fractions: bookings_num / bookings_den per 30 minutes (0 when the
\* denominator is 0), waits_sum / waits_len seconds (0 when there is none).
calculate_probability_score(bookings_num, bookings_den, waits_sum, waits_len) ==
    LET frequency_score ==
            IF bookings_den > 0 /\ bookings_num >= 3 * bookings_den THEN 70
            ELSE IF bookings_den > 0 /\ bookings_num >= 2 * bookings_den THEN 60
            ELSE IF bookings_den > 0 /\ bookings_num >= 1 * bookings_den THEN 40
            ELSE 20
        wait_score ==
            IF waits_len = 0 \/ waits_sum < 2 * 60 * waits_len THEN 30
            ELSE IF waits_sum < 5 * 60 * waits_len THEN 20
            ELSE IF waits_sum < 10 * 60 * waits_len THEN 10
            ELSE 5
    IN frequency_score + wait_score

\* the record build_historical_data computes for one time bucket
BucketRecord(route_id, lookback_days, key, bs) ==
    LET total_bookings == Cardinality(bs)
        waits == Waited(bs)
    IN [ route_id |-> route_id,
         day_of_week |-> key[1],
         hour_of_day |-> key[2],
         time_slot |-> time_slot(key[2]),
         total_bookings |-> total_bookings,
         avg_bookings_per_30min |->
             IF lookback_days > 0
             THEN (total_bookings * DAYS_PER_WEEK * 1000) \div lookback_days
             ELSE 0,
         avg_wait_time_seconds |->
             IF waits = {} THEN 0 ELSE SumWaits(waits) \div Cardinality(waits),
         arrival_probability_score |->
             calculate_probability_score(total_bookings * DAYS_PER_WEEK, lookback_days,
                                         SumWaits(waits), Cardinality(waits)) ]

\* the natural key of a row: uq_route_time_slot
NaturalKey(row) == <<row.route_id, row.day_of_week, row.hour_of_day, row.time_slot>>

\* upsert that adds the new count to the stored one
upsert_Accumulates(rows, record) ==
    LET existing == { r \in rows : NaturalKey(r) = NaturalKey(record) }
    IN IF existing # {}
       THEN (rows \ existing)
            \cup { [record EXCEPT !.total_bookings = r.total_bookings + record.total_bookings]
                   : r \in existing }
       ELSE rows \cup {record}

\* "Update or create historical record": the row with the record's key
\* takes the record's values, or the record is added
upsert(rows, record) ==
    LET existing == { r \in rows : NaturalKey(r) = NaturalKey(record) }
    IN IF existing # {}
       THEN (rows \ existing) \cup {record}
       ELSE rows \cup {record}

RECURSIVE UpsertAll(_, _)
UpsertAll(rows, records) ==
    IF records = {} THEN rows
    ELSE LET record == CHOOSE x \in records : TRUE
         IN UpsertAll(upsert(rows, record), records \ {record})

\* the learner before its first run: an empty table and no run on record
NoLearner == [ buckets |-> {}, runs |-> <<>> ]

\* the drivers whose accept requests may be in progress at once
AcceptDrivers == {1, 2}

\* no accept request in progress: nothing loaded, no response
NoAccept == [ pc |-> "idle", group_id |-> None, status |-> None ]

NoAccepts == [ driver \in AcceptDrivers |-> NoAccept ]

----------------------------------------------------------------------------
(* SmartDispatchService._make_decision.  The reasoning text is kept as the *)
(* name of the rule that produced it.                                      *)

\* make_decision with the wait threshold of RULE 1 made inclusive
make_decision_InclusiveWait(final_probability, wait_time, pending_count, nearest_distance) ==
    IF /\ pending_count >= 2
       /\ nearest_distance < 500
       /\ wait_time >= MIN_WAIT_TIME_SECONDS
    THEN [action |-> "DISPATCH_NOW", reasoning |-> "STRATEGIC"]
    ELSE IF /\ final_probability < PROBABILITY_THRESHOLD_LOW * 100
            /\ wait_time > MIN_WAIT_TIME_SECONDS
    THEN [action |-> "DISPATCH_NOW", reasoning |-> "Low arrival probability"]
    ELSE IF final_probability > PROBABILITY_THRESHOLD_HIGH * 100
    THEN [action |-> "WAIT", reasoning |-> "High arrival probability"]
    ELSE IF wait_time > MAX_WAIT_TIME_SECONDS
    THEN [action |-> "DISPATCH_NOW", reasoning |-> "Maximum wait time exceeded"]
    ELSE [action |-> "WAIT", reasoning |-> "Uncertain probability"]

make_decision(final_probability, wait_time, pending_count, nearest_distance) ==
    IF /\ pending_count >= 2
       /\ nearest_distance < 500
       /\ wait_time > MIN_WAIT_TIME_SECONDS
    THEN [action |-> "DISPATCH_NOW", reasoning |-> "STRATEGIC"]
    ELSE IF /\ final_probability < PROBABILITY_THRESHOLD_LOW * 100
            /\ wait_time > MIN_WAIT_TIME_SECONDS
    THEN [action |-> "DISPATCH_NOW", reasoning |-> "Low arrival probability"]
    ELSE IF final_probability > PROBABILITY_THRESHOLD_HIGH * 100
    THEN [action |-> "WAIT", reasoning |-> "High arrival probability"]
    ELSE IF wait_time > MAX_WAIT_TIME_SECONDS
    THEN [action |-> "DISPATCH_NOW", reasoning |-> "Maximum wait time exceeded"]
    ELSE [action |-> "WAIT", reasoning |-> "Uncertain probability"]

\* HistoricalLearner.get_arrival_probability
get_arrival_probability(route_id) ==
    IF historical[route_id] = None THEN NEUTRAL_PROBABILITY
    ELSE historical[route_id]

\* ProximityAnalyzer.analyze_pending_bookings: recent SEARCHING bookings of the route
PendingBookings(route_id) ==
    { b \in DOMAIN bookings :
        /\ bookings[b].route_id = route_id
        /\ bookings[b].request_status = "SEARCHING"
        /\ bookings[b].requested_at >= now - RECENT_BOOKING_WINDOW_SECONDS }

\* ProximityAnalyzer._calculate_nearest_distance
calculate_nearest_distance(pending) ==
    LET distances == { bookings[b].request_distance : b \in pending }
    IN  IF distances = {} THEN NO_PENDING_DISTANCE
        ELSE CHOOSE d \in distances : \A e \in distances : d <= e

analyze_pending_bookings(route_id) ==
    LET pending == PendingBookings(route_id)
    IN  IF pending = {}
        THEN [pending_count |-> 0, nearest_distance_meters |-> NO_PENDING_DISTANCE]
        ELSE [pending_count |-> Cardinality(pending),
              nearest_distance_meters |-> calculate_nearest_distance(pending)]

----------------------------------------------------------------------------
(* Request handlers.  A handler's record is its SQLAlchemy session: the   *)
(* rows it has loaded and the changes it has staged for its next commit.  *)

\* a handler has returned nothing yet
NoResult == [group_id |-> 0, current_size |-> 0, seat_number |-> 0]

IdleWorker(ret) ==
    [ pc |-> "idle",
      op |-> "none",              \* the endpoint being served: join or leave
      user_id |-> 0,
      booking_id |-> 0,
      group_id |-> 0,
      group |-> DeletedGroup,     \* the ride_groups row as this session loaded it
      member_id |-> 0,            \* the group_members row staged for deletion
      delete_group |-> FALSE,     \* db.delete(group) staged
      cascade |-> {},             \* member rows loaded by the delete cascade
      ret |-> ret,                \* outcome of the handler's last call
      result |-> NoResult ]       \* and the dict it returned

Idle(w) == workers[w].pc = "idle"

\* the handler's session once the call op of user has returned ret (or raised it)
Returned(op, user, ret, result) ==
    [IdleWorker(ret) EXCEPT !.pc = "returned", !.op = op, !.user_id = user, !.result = result]

\* the handler returns ret (or raises it) to the API layer
Return(w, ret) ==
    workers' = [workers EXCEPT ![w] = Returned(workers[w].op, workers[w].user_id, ret, NoResult)]

\* app.api.queue: the status of the response.  join_queue answers a
\* ValueError with 400, leave_queue with 404, both anything else raised
\* with 500
http_status(op, ret) ==
    IF ret = "ok" THEN 200
    ELSE IF ret = "ValueError" THEN (IF op = "leave" THEN 404 ELSE 400)
    ELSE 500

\* the API layer sends the response; the session is closed
Respond(w) ==
    /\ workers[w].pc = "returned"
    /\ workers' = [workers EXCEPT ![w] = IdleWorker("none")]
    /\ UNCHANGED <<now, groups, members, bookings, historical, decisionLog, sweep,
                   scheduler, calculator, learner, rides, accepts>>

\* QueueService.join_queue up to the commit of the new booking
JoinBegin(w, user, route, women_only, dist) ==
    /\ Idle(w)
    /\ Cardinality({ b \in DOMAIN bookings : bookings[b].user_id \in Requesters }) < MaxJoins
    /\ IF \E b \in DOMAIN bookings :
             /\ bookings[b].user_id = user
             /\ bookings[b].request_status = "SEARCHING"
       THEN /\ workers' = [workers EXCEPT ![w] = Returned("join", user, "ValueError", NoResult)]
            /\ UNCHANGED bookings
       ELSE /\ bookings' = Append(bookings, NewBooking(user, route, women_only, dist))
            /\ workers' = [workers EXCEPT ![w] =
                   [IdleWorker("none") EXCEPT !.pc = "find_group",
                                              !.op = "join",
                                              !.user_id = user,
                                              !.booking_id = Len(bookings) + 1]]
    /\ UNCHANGED <<now, groups, members, historical, decisionLog, sweep>>

\* CompatibleGroups without the gender filter
CompatibleGroups_AnyFlag(route, wants_women_only) ==
    { g \in GroupIds :
        /\ groups[g].route_id = route
        /\ groups[g].status = "FORMING"
        /\ groups[g].current_size < groups[g].max_size }

\* the query of _find_or_create_group
CompatibleGroups(route, wants_women_only) ==
    { g \in GroupIds :
        /\ groups[g].route_id = route
        /\ groups[g].status = "FORMING"
        /\ groups[g].current_size < groups[g].max_size
        /\ groups[g].women_only = wants_women_only }

\* the first group of the list sorted by current_size, largest first,
\* that can_accept_user
BestMatches(candidates, user) ==
    LET acceptable == { g \in candidates : can_accept_user(groups[g], user) }
    IN  { g \in acceptable :
            \A h \in acceptable : groups[g].current_size >= groups[h].current_size }

\* QueueService._find_or_create_group
JoinFind(w) ==
    LET me == workers[w]
        booking == bookings[me.booking_id]
        wants_women_only ==
            booking.women_only_preference \/ Gender[me.user_id] = "FEMALE"
        found == BestMatches(CompatibleGroups(booking.route_id, wants_women_only),
                             me.user_id)
    IN  /\ me.pc = "find_group"
        /\ IF found # {}
           THEN /\ \E g \in found :
                     workers' = [workers EXCEPT ![w].pc = "add_user",
                                                ![w].group_id = g,
                                                ![w].group = groups[g]]
                /\ UNCHANGED groups
           ELSE /\ groups' = Append(groups, NewGroup(booking.route_id, wants_women_only))
                /\ workers' = [workers EXCEPT ![w].pc = "add_user",
                                              ![w].group_id = Len(groups) + 1,
                                              ![w].group = NewGroup(booking.route_id,
                                                                    wants_women_only)]
        /\ UNCHANGED <<now, members, bookings, historical, decisionLog, sweep>>

\* JoinAdd numbering the seats from 0
JoinAdd_SeatFromZero(w) ==
    LET me == workers[w]
        g == me.group_id
        seat_number == me.group.current_size
    IN  /\ me.pc = "add_user"
        /\ IF RowExists(g)
           THEN /\ members' = Append(members,
                        [ id |-> me.booking_id,
                          group_id |-> g,
                          user_id |-> me.user_id,
                          seat_number |-> seat_number ])
                /\ groups' = [groups EXCEPT
                        ![g].current_size = me.group.current_size + 1,
                        ![g].first_user_joined_at =
                            IF me.group.first_user_joined_at = None THEN now ELSE @]
                /\ bookings' = [bookings EXCEPT
                        ![me.booking_id].group_id = g,
                        ![me.booking_id].request_status = "GROUPED",
                        ![me.booking_id].grouped_at = now]
                \* the dict is built after the commit: current_size is read
                \* again from the row, seat_number is the local computed above
                /\ workers' = [workers EXCEPT ![w] =
                       Returned(me.op, me.user_id, "ok",
                                [ group_id |-> g,
                                  current_size |-> me.group.current_size + 1,
                                  seat_number |-> seat_number ])]
           ELSE \* the row is gone: the flush fails and the session rolls back
                /\ Return(w, "error")
                /\ UNCHANGED <<members, groups, bookings>>
        /\ UNCHANGED <<now, historical, decisionLog, sweep>>

\* QueueService._add_user_to_group: the values are computed from the group
\* as the session loaded it, and written by one commit
JoinAdd(w) ==
    LET me == workers[w]
        g == me.group_id
        seat_number == me.group.current_size + 1
    IN  /\ me.pc = "add_user"
        /\ IF RowExists(g)
           THEN /\ members' = Append(members,
                        [ id |-> me.booking_id,
                          group_id |-> g,
                          user_id |-> me.user_id,
                          seat_number |-> seat_number ])
                /\ groups' = [groups EXCEPT
                        ![g].current_size = me.group.current_size + 1,
                        ![g].first_user_joined_at =
                            IF me.group.first_user_joined_at = None THEN now ELSE @]
                /\ bookings' = [bookings EXCEPT
                        ![me.booking_id].group_id = g,
                        ![me.booking_id].request_status = "GROUPED",
                        ![me.booking_id].grouped_at = now]
                \* the dict is built after the commit: current_size is read
                \* again from the row, seat_number is the local computed above
                /\ workers' = [workers EXCEPT ![w] =
                       Returned(me.op, me.user_id, "ok",
                                [ group_id |-> g,
                                  current_size |-> me.group.current_size + 1,
                                  seat_number |-> seat_number ])]
           ELSE \* the row is gone: the flush fails and the session rolls back
                /\ Return(w, "error")
                /\ UNCHANGED <<members, groups, bookings>>
        /\ UNCHANGED <<now, historical, decisionLog, sweep>>

\* LeaveBegin taking any request of the user, whatever its status
LeaveBegin_AnyStatus(w, user) ==
    LET active == { b \in DOMAIN bookings :
                      /\ bookings[b].user_id = user
                      /\ bookings[b].request_status \in {"SEARCHING", "GROUPED", "CANCELLED"} }
    IN  /\ Idle(w)
        /\ IF active = {}
           THEN workers' = [workers EXCEPT ![w] = Returned("leave", user, "ValueError", NoResult)]
           ELSE \E b \in active :
                  workers' = [workers EXCEPT ![w] =
                      [IdleWorker("none") EXCEPT
                          !.pc = IF bookings[b].group_id = None
                                 THEN "cancel" ELSE "leave_group",
                          !.op = "leave",
                          !.user_id = user,
                          !.booking_id = b,
                          !.group_id = IF bookings[b].group_id = None
                                       THEN 0 ELSE bookings[b].group_id]]
        /\ UNCHANGED <<now, groups, members, bookings, historical, decisionLog, sweep>>

\* QueueService.leave_queue: the query for the active booking
LeaveBegin(w, user) ==
    LET active == { b \in DOMAIN bookings :
                      /\ bookings[b].user_id = user
                      /\ bookings[b].request_status \in {"SEARCHING", "GROUPED"} }
    IN  /\ Idle(w)
        /\ IF active = {}
           THEN workers' = [workers EXCEPT ![w] = Returned("leave", user, "ValueError", NoResult)]
           ELSE \E b \in active :
                  workers' = [workers EXCEPT ![w] =
                      [IdleWorker("none") EXCEPT
                          !.pc = IF bookings[b].group_id = None
                                 THEN "cancel" ELSE "leave_group",
                          !.op = "leave",
                          !.user_id = user,
                          !.booking_id = b,
                          !.group_id = IF bookings[b].group_id = None
                                       THEN 0 ELSE bookings[b].group_id]]
        /\ UNCHANGED <<now, groups, members, bookings, historical, decisionLog, sweep>>

\* LeavableGroup without the test of the status
LeavableGroup_AnyStatus(g) == RowExists(g)

\* leave_queue: "if group and group.group_status == GroupStatus.FORMING"
LeavableGroup(g) == RowExists(g) /\ groups[g].status = "FORMING"

\* LeaveGroup taking the group's first member, whoever it is
LeaveGroup_AnyMember(w) ==
    LET me == workers[w]
        g == me.group_id
        mine == { i \in MembersOf(g) : \A j \in MembersOf(g) : i <= j }
    IN  /\ me.pc = "leave_group"
        /\ IF LeavableGroup(g) /\ mine # {}
           THEN \E i \in mine :
                  workers' = [workers EXCEPT
                      ![w].pc = IF groups[g].current_size - 1 = 0
                                THEN "cancel" ELSE "reassign",
                      ![w].group = [groups[g] EXCEPT !.current_size = @ - 1],
                      ![w].member_id = members[i].id,
                      ![w].delete_group = (groups[g].current_size - 1 = 0),
                      ![w].cascade = IF groups[g].current_size - 1 = 0
                                     THEN { members[j].id : j \in MembersOf(g) }
                                     ELSE {}]
           ELSE workers' = [workers EXCEPT ![w].pc = "cancel", ![w].group_id = 0]
        /\ UNCHANGED <<now, groups, members, bookings, historical, decisionLog, sweep>>

\* QueueService.leave_queue: load the group and the member, stage the removal.
\* Nothing is written yet (the session does not autoflush).
LeaveGroup(w) ==
    LET me == workers[w]
        g == me.group_id
        mine == { i \in MembersOf(g) : members[i].user_id = me.user_id }
    IN  /\ me.pc = "leave_group"
        /\ IF LeavableGroup(g) /\ mine # {}
           THEN \E i \in mine :
                  workers' = [workers EXCEPT
                      ![w].pc = IF groups[g].current_size - 1 = 0
                                THEN "cancel" ELSE "reassign",
                      ![w].group = [groups[g] EXCEPT !.current_size = @ - 1],
                      ![w].member_id = members[i].id,
                      ![w].delete_group = (groups[g].current_size - 1 = 0),
                      ![w].cascade = IF groups[g].current_size - 1 = 0
                                     THEN { members[j].id : j \in MembersOf(g) }
                                     ELSE {}]
           ELSE workers' = [workers EXCEPT ![w].pc = "cancel", ![w].group_id = 0]
        /\ UNCHANGED <<now, groups, members, bookings, historical, decisionLog, sweep>>

\* the seat numbers _reassign_seat_numbers gives: position among the rows the
\* query returns for the group, in joined_at order
Renumbered(g) ==
    [ i \in DOMAIN members |->
        IF members[i].group_id = g
        THEN [members[i] EXCEPT
                 !.seat_number = Cardinality({ j \in MembersOf(g) : j <= i })]
        ELSE members[i] ]

\* LeaveReassign with the decrement applied a second time at the commit
LeaveReassign_DoubleDecrement(w) ==
    LET me == workers[w]
        g == me.group_id
    IN  /\ me.pc = "reassign"
        /\ IF RowExists(g)
           THEN /\ members' = Without(Renumbered(g),
                                      { i \in DOMAIN members : members[i].id = me.member_id })
                /\ groups' = [groups EXCEPT ![g].current_size = me.group.current_size - 1]
                /\ workers' = [workers EXCEPT ![w].pc = "cancel", ![w].member_id = 0]
           ELSE /\ Return(w, "error")
                /\ UNCHANGED <<members, groups>>
        /\ UNCHANGED <<now, bookings, historical, decisionLog, sweep>>

\* QueueService._reassign_seat_numbers and its commit, which also flushes the
\* staged member deletion and the new current_size
LeaveReassign(w) ==
    LET me == workers[w]
        g == me.group_id
    IN  /\ me.pc = "reassign"
        /\ IF RowExists(g)
           THEN /\ members' = Without(Renumbered(g),
                                      { i \in DOMAIN members : members[i].id = me.member_id })
                /\ groups' = [groups EXCEPT ![g].current_size = me.group.current_size]
                /\ workers' = [workers EXCEPT ![w].pc = "cancel", ![w].member_id = 0]
           ELSE \* UPDATE of a deleted row: the flush fails, the session rolls back
                /\ Return(w, "error")
                /\ UNCHANGED <<members, groups>>
        /\ UNCHANGED <<now, bookings, historical, decisionLog, sweep>>

\* rows that still reference a group when its DELETE is flushed
BlocksDelete(g, cascade) ==
    \/ \E i \in MembersOf(g) : members[i].id \notin cascade
    \/ \E k \in DOMAIN decisionLog : decisionLog[k].group_id = g

\* LeaveCancel that starts the group's wait afresh when a member has left
LeaveCancel_ResetsAnchor(w) ==
    LET me == workers[w]
        g == me.group_id
        notifies == g # 0 /\ ~me.delete_group    \* _notify_group_update reloads the group
    IN  /\ me.pc = "cancel"
        /\ IF \/ notifies /\ ~RowExists(g)
              \/ me.delete_group /\ RowExists(g) /\ BlocksDelete(g, me.cascade)
           THEN \* ObjectDeletedError, or a foreign key violation on DELETE
                /\ Return(w, "error")
                /\ UNCHANGED <<groups, members, bookings>>
           ELSE /\ groups' = IF me.delete_group /\ RowExists(g)
                             THEN [groups EXCEPT ![g] = DeletedGroup]
                             ELSE IF RowExists(g)
                             THEN [groups EXCEPT ![g].first_user_joined_at = now]
                             ELSE groups
                /\ members' = IF me.delete_group
                              THEN Without(members,
                                     { i \in DOMAIN members : members[i].id \in me.cascade })
                              ELSE members
                /\ bookings' = [ b \in DOMAIN bookings |->
                        IF b = me.booking_id
                        THEN [bookings[b] EXCEPT
                                 !.request_status = "CANCELLED",
                                 !.group_id = IF me.delete_group /\ @ = g THEN None ELSE @]
                        ELSE IF me.delete_group /\ bookings[b].group_id = g
                        THEN [bookings[b] EXCEPT !.group_id = None]
                        ELSE bookings[b] ]
                /\ Return(w, "ok")
        /\ UNCHANGED <<now, historical, decisionLog, sweep>>


\* QueueService.leave_queue: notify the remaining members, cancel the booking, commit
LeaveCancel(w) ==
    LET me == workers[w]
        g == me.group_id
        notifies == g # 0 /\ ~me.delete_group    \* _notify_group_update reloads the group
    IN  /\ me.pc = "cancel"
        /\ IF \/ notifies /\ ~RowExists(g)
              \/ me.delete_group /\ RowExists(g) /\ BlocksDelete(g, me.cascade)
           THEN \* ObjectDeletedError, or a foreign key violation on DELETE
                /\ Return(w, "error")
                /\ UNCHANGED <<groups, members, bookings>>
           ELSE /\ groups' = IF me.delete_group /\ RowExists(g)
                             THEN [groups EXCEPT ![g] = DeletedGroup]
                             ELSE groups
                /\ members' = IF me.delete_group
                              THEN Without(members,
                                     { i \in DOMAIN members : members[i].id \in me.cascade })
                              ELSE members
                /\ bookings' = [ b \in DOMAIN bookings |->
                        IF b = me.booking_id
                        THEN [bookings[b] EXCEPT
                                 !.request_status = "CANCELLED",
                                 !.group_id = IF me.delete_group /\ @ = g THEN None ELSE @]
                        ELSE IF me.delete_group /\ bookings[b].group_id = g
                        THEN [bookings[b] EXCEPT !.group_id = None]
                        ELSE bookings[b] ]
                /\ Return(w, "ok")
        /\ UNCHANGED <<now, historical, decisionLog, sweep>>

----------------------------------------------------------------------------
(* The sweep: SmartDispatchService.run_dispatch_analysis, one group at a   *)
(* time.  The groups are loaded by the first query; every commit of the    *)
(* sweep's session expires them, so after its first commit the sweep       *)
(* reloads a group whenever it touches it.                                 *)

NoDecision == [action |-> "NONE", reasoning |-> "NONE"]

ZeroStats == [analyzed |-> 0, dispatched |-> 0, waiting |-> 0, skipped |-> 0]

IdleSweep(runs, stats) ==
    [ pc |-> "idle",
      todo |-> {},                 \* forming_groups not yet visited
      loaded |-> <<>>,             \* the rows as the first query returned them
      committed |-> FALSE,         \* the session has committed since that query
      broken |-> FALSE,            \* a flush failed: the session refuses further work
      group_id |-> 0,              \* the group being decided
      decision |-> NoDecision,
      decision_type |-> "NONE",
      probability |-> None,
      notified |-> "none",         \* how the last ready notification went
      stats |-> stats,
      runs |-> runs ]

\* the group as the sweep's session sees it
SweepView(g) == IF sweep.committed THEN groups[g] ELSE sweep.loaded[g]

\* Count with the skipped groups left out
Count_DropsSkipped(stats, outcome) ==
    IF outcome = "dispatched" THEN [stats EXCEPT !.dispatched = @ + 1]
    ELSE IF outcome = "waiting" THEN [stats EXCEPT !.waiting = @ + 1]
    ELSE stats

\* stats[decision] += 1, and stats["skipped"] += 1 in the except clause
Count(stats, outcome) ==
    IF outcome = "dispatched" THEN [stats EXCEPT !.dispatched = @ + 1]
    ELSE IF outcome = "waiting" THEN [stats EXCEPT !.waiting = @ + 1]
    ELSE [stats EXCEPT !.skipped = @ + 1]

\* the sweep's session once group g has been counted
Finished(g, outcome, committed, broken, notified) ==
    [sweep EXCEPT !.pc = "next",
                  !.todo = @ \ {g},
                  !.loaded = IF committed THEN <<>> ELSE @,
                  !.group_id = 0,
                  !.decision = NoDecision,
                  !.decision_type = "NONE",
                  !.probability = None,
                  !.notified = notified,
                  !.committed = committed,
                  !.broken = broken,
                  !.stats = Count(@, outcome)]

\* the loop of run_dispatch_analysis moves on, having counted the group
NextGroup(g, outcome, committed, broken) ==
    sweep' = Finished(g, outcome, committed, broken, "none")

\* SweepStart with the READY groups in the query as well
SweepStart_AnyOpenStatus ==
    LET forming == { g \in GroupIds : groups[g].status \in {"FORMING", "READY"} }
    IN  /\ sweep.pc = "idle"
        /\ sweep.runs < MaxSweeps
        /\ sweep' = [IdleSweep(sweep.runs + 1,
                               [ZeroStats EXCEPT !.analyzed = Cardinality(forming)])
                        EXCEPT !.pc = "next",
                               !.todo = forming,
                               !.loaded = [ g \in forming |-> groups[g] ]]
        /\ UNCHANGED <<now, groups, members, bookings, historical, decisionLog, workers>>

\* run_dispatch_analysis: the query for the FORMING groups
SweepStart ==
    LET forming == { g \in GroupIds : groups[g].status = "FORMING" }
    IN  /\ sweep.pc = "idle"
        /\ sweep.runs < MaxSweeps
        /\ sweep' = [IdleSweep(sweep.runs + 1,
                               [ZeroStats EXCEPT !.analyzed = Cardinality(forming)])
                        EXCEPT !.pc = "next",
                               !.todo = forming,
                               !.loaded = [ g \in forming |-> groups[g] ]]
        /\ UNCHANGED <<now, groups, members, bookings, historical, decisionLog, workers>>

\* the row _log_decision inserts
LogEntry(g, group, decision, probability, proximity_analysis) ==
    [ group_id |-> g,
      decision_time |-> now,
      group_size_at_decision |-> group.current_size,
      wait_time_seconds |-> get_wait_time_seconds(group),
      pending_bookings_count |-> proximity_analysis.pending_count,
      nearest_pending_distance_meters |-> proximity_analysis.nearest_distance_meters,
      historical_probability |-> None,
      final_probability_score |-> probability,
      decision_made |-> decision.action,
      reasoning |-> decision.reasoning ]

\* too_young with the group of exactly 60 seconds skipped as well
too_young_Inclusive(wait_time_seconds) == wait_time_seconds <= TOO_YOUNG_SECONDS

\* _analyze_and_decide: "Skip if too young (let it form)"
too_young(wait_time_seconds) == wait_time_seconds < TOO_YOUNG_SECONDS

\* SweepAnalyze that scores a group however young it is
SweepAnalyze_NoYoungSkip(g) ==
    LET group == SweepView(g)
        wait_time_seconds == get_wait_time_seconds(group)
        historical_prob == get_arrival_probability(group.route_id)
        proximity_analysis == analyze_pending_bookings(group.route_id)
        final_probability ==
            calculate_final_probability(historical_prob,
                                        proximity_analysis.pending_count,
                                        proximity_analysis.nearest_distance_meters,
                                        wait_time_seconds,
                                        group.current_size,
                                        DEFAULT_MAX_SIZE)
        decision == make_decision(final_probability, wait_time_seconds,
                                  proximity_analysis.pending_count,
                                  proximity_analysis.nearest_distance_meters)
    IN  /\ sweep.pc = "next"
        /\ g \in sweep.todo
        /\ IF sweep.broken \/ (sweep.committed /\ ~RowExists(g))
           THEN \* the reload raises: counted as skipped
                /\ NextGroup(g, "skipped", sweep.committed, sweep.broken)
                /\ UNCHANGED decisionLog
           ELSE IF is_full(group)
           THEN /\ sweep' = [sweep EXCEPT !.pc = "dispatch",
                                          !.todo = @ \ {g},
                                          !.group_id = g,
                                          !.decision_type = "FULL_GROUP",
                                          !.probability = FULL_GROUP_SCORE * 100]
                /\ UNCHANGED decisionLog
           ELSE IF ~RowExists(g)
           THEN \* the log row references a deleted group: the flush fails
                /\ NextGroup(g, "skipped", TRUE, TRUE)
                /\ UNCHANGED decisionLog
           ELSE /\ decisionLog' = Append(decisionLog,
                        LogEntry(g, group, decision, final_probability, proximity_analysis))
                /\ sweep' = [sweep EXCEPT !.pc = "execute",
                                          !.todo = @ \ {g},
                                          !.loaded = <<>>,
                                          !.group_id = g,
                                          !.decision = decision,
                                          !.probability = final_probability,
                                          !.committed = TRUE]
        /\ UNCHANGED <<now, groups, members, bookings, historical, workers>>

\* _analyze_and_decide up to the commit of the decision log
SweepAnalyze(g) ==
    LET group == SweepView(g)
        wait_time_seconds == get_wait_time_seconds(group)
        historical_prob == get_arrival_probability(group.route_id)
        proximity_analysis == analyze_pending_bookings(group.route_id)
        final_probability ==
            calculate_final_probability(historical_prob,
                                        proximity_analysis.pending_count,
                                        proximity_analysis.nearest_distance_meters,
                                        wait_time_seconds,
                                        group.current_size,
                                        DEFAULT_MAX_SIZE)
        decision == make_decision(final_probability, wait_time_seconds,
                                  proximity_analysis.pending_count,
                                  proximity_analysis.nearest_distance_meters)
    IN  /\ sweep.pc = "next"
        /\ g \in sweep.todo
        /\ IF sweep.broken \/ (sweep.committed /\ ~RowExists(g))
           THEN \* the reload raises: counted as skipped
                /\ NextGroup(g, "skipped", sweep.committed, sweep.broken)
                /\ UNCHANGED decisionLog
           ELSE IF is_full(group)
           THEN /\ sweep' = [sweep EXCEPT !.pc = "dispatch",
                                          !.todo = @ \ {g},
                                          !.group_id = g,
                                          !.decision_type = "FULL_GROUP",
                                          !.probability = FULL_GROUP_SCORE * 100]
                /\ UNCHANGED decisionLog
           ELSE IF too_young(wait_time_seconds)
           THEN /\ NextGroup(g, "skipped", sweep.committed, sweep.broken)
                /\ UNCHANGED decisionLog
           ELSE IF ~RowExists(g)
           THEN \* the log row references a deleted group: the flush fails
                /\ NextGroup(g, "skipped", TRUE, TRUE)
                /\ UNCHANGED decisionLog
           ELSE /\ decisionLog' = Append(decisionLog,
                        LogEntry(g, group, decision, final_probability, proximity_analysis))
                /\ sweep' = [sweep EXCEPT !.pc = "execute",
                                          !.todo = @ \ {g},
                                          !.loaded = <<>>,
                                          !.group_id = g,
                                          !.decision = decision,
                                          !.probability = final_probability,
                                          !.committed = TRUE]
        /\ UNCHANGED <<now, groups, members, bookings, historical, workers>>

\* DispatchCommit without the QR code
DispatchCommit_NoToken(g, decision_type, probability) ==
    /\ groups' = [groups EXCEPT
            ![g].status = "READY",
            ![g].dispatched_at = now,
            ![g].dispatch_decision_type = decision_type,
            ![g].dispatch_probability_score = probability]
    /\ sweep' = [sweep EXCEPT !.pc = "bookings",
                              !.group_id = g,
                              !.loaded = <<>>,
                              !.committed = TRUE]

\* _dispatch_group: the commit that makes the group READY
DispatchCommit(g, decision_type, probability) ==
    /\ groups' = [groups EXCEPT
            ![g].status = "READY",
            ![g].dispatched_at = now,
            ![g].dispatch_decision_type = decision_type,
            ![g].dispatch_probability_score = probability,
            ![g].qr_code = generate_qr_code(g)]
    /\ sweep' = [sweep EXCEPT !.pc = "bookings",
                              !.group_id = g,
                              !.loaded = <<>>,
                              !.committed = TRUE]

\* _analyze_and_decide, RULE 0: _dispatch_group for a full group
SweepDispatchFull ==
    LET g == sweep.group_id
    IN  /\ sweep.pc = "dispatch"
        /\ IF RowExists(g)
           THEN DispatchCommit(g, sweep.decision_type, sweep.probability)
           ELSE \* UPDATE of a deleted row: the flush fails
                /\ NextGroup(g, "skipped", TRUE, TRUE)
                /\ UNCHANGED groups
        /\ UNCHANGED <<now, members, bookings, historical, decisionLog, workers>>

\* SweepExecute dispatching whatever the decision says
SweepExecute_IgnoresAction ==
    LET g == sweep.group_id
    IN  /\ sweep.pc = "execute"
        /\ IF RowExists(g)
           THEN DispatchCommit(g, "EARLY_DISPATCH", sweep.probability)
           ELSE /\ NextGroup(g, "skipped", TRUE, sweep.broken)
                /\ UNCHANGED groups
        /\ UNCHANGED <<now, members, bookings, historical, decisionLog, workers>>

\* _execute_decision
SweepExecute ==
    LET g == sweep.group_id
    IN  /\ sweep.pc = "execute"
        /\ IF sweep.decision.action = "DISPATCH_NOW"
           THEN IF RowExists(g)
                THEN DispatchCommit(g, "EARLY_DISPATCH", sweep.probability)
                ELSE \* the reload of the expired group raises
                     /\ NextGroup(g, "skipped", TRUE, sweep.broken)
                     /\ UNCHANGED groups
           ELSE \* notify_group_waiting is called without await: the coroutine
                \* is created and never run, nothing is delivered
                /\ NextGroup(g, "waiting", TRUE, sweep.broken)
                /\ UNCHANGED groups
        /\ UNCHANGED <<now, members, bookings, historical, decisionLog, workers>>

\* SweepBookings letting a failed delivery reach the loop's except clause
SweepBookings_Propagates ==
    LET g == sweep.group_id
    IN  /\ sweep.pc = "bookings"
        /\ bookings' = [ b \in DOMAIN bookings |->
                IF bookings[b].group_id = g
                THEN [bookings[b] EXCEPT !.request_status = "GROUPED",
                                         !.grouped_at = now]
                ELSE bookings[b] ]
        /\ \E delivery \in Deliveries :
              sweep' = Finished(g, IF delivery = "failed" THEN "skipped" ELSE "dispatched",
                                TRUE, sweep.broken, delivery)
        /\ UNCHANGED <<now, groups, members, historical, decisionLog, workers>>

\* _dispatch_group: the bulk update of the group's bookings, its commit, and
\* the ready notification.  notify_group_ready_sync and notify_group_ready
\* catch whatever the delivery raises and log it.
SweepBookings ==
    LET g == sweep.group_id
    IN  /\ sweep.pc = "bookings"
        /\ bookings' = [ b \in DOMAIN bookings |->
                IF bookings[b].group_id = g
                THEN [bookings[b] EXCEPT !.request_status = "GROUPED",
                                         !.grouped_at = now]
                ELSE bookings[b] ]
        /\ \E delivery \in Deliveries :
              sweep' = Finished(g, "dispatched", TRUE, sweep.broken, delivery)
        /\ UNCHANGED <<now, groups, members, historical, decisionLog, workers>>

\* run_dispatch_analysis returns its stats
SweepEnd ==
    /\ sweep.pc = "next"
    /\ sweep.todo = {}
    /\ sweep' = IdleSweep(sweep.runs, sweep.stats)
    /\ UNCHANGED <<now, groups, members, bookings, historical, decisionLog, workers>>

----------------------------------------------------------------------------
(* app.ai.scheduler: the BackgroundScheduler that runs the sweep as a job. *)
(* jobs counts the interval jobs that are scheduled (over every scheduler  *)
(* object that has been started and not shut down), instances the runs of  *)
(* run_dispatch_analysis_job in progress.                                  *)

NoScheduler ==
    [ started |-> FALSE,      \* scheduler is not None
      jobs |-> 0,
      instances |-> 0,
      skipped |-> 0,          \* ticks dropped because an instance was running
      calls |-> 0,            \* calls of start and stop so far
      last |-> "none" ]       \* what the last of them logged

\* the scheduler as main.py's startup leaves it
StartedScheduler ==
    [NoScheduler EXCEPT !.started = TRUE, !.jobs = 1, !.calls = 1, !.last = "started"]

\* SchedulerStart creating a scheduler whether or not one exists
SchedulerStart_Unguarded ==
    /\ scheduler.calls < MaxCalls
    /\ scheduler' = [scheduler EXCEPT !.started = TRUE,
                                       !.jobs = @ + 1,
                                       !.calls = @ + 1,
                                       !.last = "started"]
    /\ UNCHANGED <<now, groups, members, bookings, historical, decisionLog, workers, sweep,
                   calculator, learner, rides, accepts>>

\* start_smart_dispatch_scheduler
SchedulerStart ==
    /\ scheduler.calls < MaxCalls
    /\ scheduler' = IF scheduler.started
                    THEN [scheduler EXCEPT !.calls = @ + 1,
                                           !.last = "already running"]
                    ELSE [scheduler EXCEPT !.started = TRUE,
                                           !.jobs = @ + 1,
                                           !.calls = @ + 1,
                                           !.last = "started"]
    /\ UNCHANGED <<now, groups, members, bookings, historical, decisionLog, workers, sweep,
                   calculator, learner, rides, accepts>>

\* stop_smart_dispatch_scheduler; shutdown(wait=True) returns once the
\* running job has finished
SchedulerStop ==
    /\ scheduler.calls < MaxCalls
    /\ scheduler.started => scheduler.instances = 0
    /\ scheduler' = IF scheduler.started
                    THEN [scheduler EXCEPT !.started = FALSE,
                                           !.jobs = 0,
                                           !.calls = @ + 1,
                                           !.last = "stopped"]
                    ELSE [scheduler EXCEPT !.calls = @ + 1,
                                           !.last = "nothing to stop"]
    /\ UNCHANGED <<now, groups, members, bookings, historical, decisionLog, workers, sweep,
                   calculator, learner, rides, accepts>>

\* JobBegin without the limit on running instances: a second instance runs
\* next to the first, on a session of its own
JobBegin_Unlimited ==
    /\ scheduler.started
    /\ scheduler' = [scheduler EXCEPT !.instances = @ + 1]
    /\ IF sweep.pc = "idle"
       THEN SweepStart
       ELSE /\ scheduler.instances < 2
            /\ UNCHANGED <<now, groups, members, bookings, historical, decisionLog,
                           workers, sweep>>
    /\ UNCHANGED <<calculator, learner, rides, accepts>>

\* the trigger fires and the executor runs run_dispatch_analysis_job
JobBegin ==
    /\ scheduler.started
    /\ scheduler.instances < MAX_INSTANCES
    /\ scheduler' = [scheduler EXCEPT !.instances = @ + 1]
    /\ SweepStart
    /\ UNCHANGED <<calculator, learner, rides, accepts>>

\* the trigger fires while the job is running: the run is dropped
JobSkipped ==
    /\ scheduler.started
    /\ scheduler.instances >= MAX_INSTANCES
    /\ scheduler.skipped < MaxSkipped
    /\ scheduler' = [scheduler EXCEPT !.skipped = @ + 1]
    /\ UNCHANGED <<now, groups, members, bookings, historical, decisionLog, workers, sweep,
                   calculator, learner, rides, accepts>>

\* run_dispatch_analysis_job returns
JobEnd ==
    /\ SweepEnd
    /\ scheduler' = [scheduler EXCEPT !.instances = @ - 1]
    /\ UNCHANGED <<calculator, learner, rides, accepts>>

----------------------------------------------------------------------------
(* app.api.driver: a carrier accepts a group.  Driver.is_available is True  *)
(* by default and is written nowhere but here, so a driver is available     *)
(* until a group has been assigned to him.                                  *)

is_available(driver) == \A g \in GroupIds : groups[g].assigned_driver_id # driver

\* Ride(group_id, driver_id, route_id, passenger_count, ride_status="ASSIGNED")
NewRide(group, g, driver) ==
    [ group_id |-> g,
      driver_id |-> driver,
      route_id |-> group.route_id,
      passenger_count |-> group.current_size,
      ride_status |-> "ASSIGNED" ]

\* AcceptGroup without the test of the group's status
AcceptGroup_AnyStatus(driver, g) ==
    /\ g \in GroupIds
    /\ IF RowExists(g) /\ is_available(driver)
       THEN /\ groups' = [groups EXCEPT ![g].status = "DISPATCHED",
                                        ![g].assigned_driver_id = driver]
            /\ rides' = Append(rides, NewRide(groups[g], g, driver))
       ELSE UNCHANGED <<groups, rides>>
    /\ UNCHANGED <<now, members, bookings, historical, decisionLog, workers, sweep,
                   scheduler, calculator, learner, accepts>>

\* accept_group_assignment: 404 unless the group is READY, 400 unless the
\* driver is available, else one commit
AcceptGroup(driver, g) ==
    /\ g \in GroupIds
    /\ IF groups[g].status = "READY" /\ is_available(driver)
       THEN /\ groups' = [groups EXCEPT ![g].status = "DISPATCHED",
                                        ![g].assigned_driver_id = driver]
            /\ rides' = Append(rides, NewRide(groups[g], g, driver))
       ELSE UNCHANGED <<groups, rides>>
    /\ UNCHANGED <<now, members, bookings, historical, decisionLog, workers, sweep,
                   scheduler, calculator, learner, accepts>>

\* The same handler taken one database round trip at a time, as it runs when
\* several server processes answer accept requests side by side.
\* accept_group_assignment up to the commit: the group is looked up by id and
\* status READY (404 when there is no such row), then the driver's
\* is_available is tested (400)
AcceptBegin(driver, g) ==
    /\ accepts[driver].pc = "idle"
    /\ g \in GroupIds
    /\ accepts' = [accepts EXCEPT ![driver] =
                     IF groups[g].status # "READY"
                     THEN [ pc |-> "returned", group_id |-> g, status |-> 404 ]
                     ELSE IF ~is_available(driver)
                     THEN [ pc |-> "returned", group_id |-> g, status |-> 400 ]
                     ELSE [ pc |-> "loaded", group_id |-> g, status |-> None ]]
    /\ UNCHANGED <<now, groups, members, bookings, historical, decisionLog, workers, sweep,
                   scheduler, calculator, learner, rides>>

\* rides.group_id is unique: the INSERT of a second ride for a group fails
UniqueViolation(g) == \E r \in DOMAIN rides : rides[r].group_id = g

\* db.commit(): the UPDATE of the group and of the driver and the INSERT of
\* the ride are one transaction.  When the INSERT fails the transaction is
\* rolled back and the IntegrityError, caught nowhere, becomes a 500
AcceptCommit(driver) ==
    /\ accepts[driver].pc = "loaded"
    /\ LET g == accepts[driver].group_id
       IN IF ~RowExists(g) \/ UniqueViolation(g)
          THEN /\ accepts' = [accepts EXCEPT ![driver].pc = "returned",
                                             ![driver].status = 500]
               /\ UNCHANGED <<groups, rides>>
          ELSE /\ groups' = [groups EXCEPT ![g].status = "DISPATCHED",
                                           ![g].assigned_driver_id = driver]
               /\ rides' = Append(rides, NewRide(groups[g], g, driver))
               /\ accepts' = [accepts EXCEPT ![driver].pc = "returned",
                                             ![driver].status = 200]
    /\ UNCHANGED <<now, members, bookings, historical, decisionLog, workers, sweep,
                   scheduler, calculator, learner>>

\* the response is sent; the session is closed
AcceptRespond(driver) ==
    /\ accepts[driver].pc = "returned"
    /\ accepts' = [accepts EXCEPT ![driver] = NoAccept]
    /\ UNCHANGED <<now, groups, members, bookings, historical, decisionLog, workers, sweep,
                   scheduler, calculator, learner, rides>>

----------------------------------------------------------------------------
\* time passes
Tick(points) ==
    /\ \E t \in points :
         /\ t > now
         /\ \A u \in points : u > now => t <= u
         /\ now' = t
    /\ UNCHANGED <<groups, members, bookings, historical, decisionLog, workers, sweep,
                   scheduler, calculator, learner, rides, accepts>>

\* The database when the run starts: empty, or holding the one group that
\* the joins of k earlier riders (men, no women-only preference) have formed
\* on a route at time 0.
SeededGroups(k, route) ==
    IF k = 0 THEN <<>>
    ELSE << [NewGroup(route, FALSE) EXCEPT !.current_size = k,
                                           !.first_user_joined_at = 0] >>

SeededMembers(k) ==
    [ i \in 1..k |-> [ id |-> i,
                       group_id |-> 1,
                       user_id |-> Len(Gender) - k + i,
                       seat_number |-> i ] ]

SeededBookings(k, route, dist) ==
    [ i \in 1..k |-> [NewBooking(Len(Gender) - k + i, route, FALSE, dist) EXCEPT
                          !.request_status = "GROUPED",
                          !.group_id = 1,
                          !.requested_at = 0,
                          !.grouped_at = 0] ]

Seeded(sizes) ==
    /\ now = 0
    /\ \E k \in sizes, route \in Routes, dist \in JoinDistances :
         /\ groups = SeededGroups(k, route)
         /\ members = SeededMembers(k)
         /\ bookings = SeededBookings(k, route, dist)
    /\ historical \in [Routes -> HistoricalScores]
    /\ decisionLog = <<>>
    /\ workers = [ w \in Workers |-> IdleWorker("none") ]
    /\ sweep = IdleSweep(0, ZeroStats)
    /\ scheduler = StartedScheduler
    /\ calculator = NoCall
    /\ learner = NoLearner
    /\ rides = <<>>
    /\ accepts = NoAccepts

Init == Seeded(SeedSizes)

ConcInit == Seeded(ConcSeedSizes)

Join(w, users, preferences) ==
    \/ /\ \E user \in users, route \in Routes, women_only \in preferences,
             dist \in JoinDistances :
            JoinBegin(w, user, route, women_only, dist)
       /\ UNCHANGED <<scheduler, calculator, learner, rides, accepts>>
    \/ JoinFind(w) /\ UNCHANGED <<scheduler, calculator, learner, rides, accepts>>
    \/ JoinAdd(w) /\ UNCHANGED <<scheduler, calculator, learner, rides, accepts>>

Leave(w, users) ==
    \/ (\E user \in users : LeaveBegin(w, user)) /\ UNCHANGED <<scheduler, calculator, learner, rides, accepts>>
    \/ LeaveGroup(w) /\ UNCHANGED <<scheduler, calculator, learner, rides, accepts>>
    \/ LeaveReassign(w) /\ UNCHANGED <<scheduler, calculator, learner, rides, accepts>>
    \/ LeaveCancel(w) /\ UNCHANGED <<scheduler, calculator, learner, rides, accepts>>

Sweep ==
    \/ JobBegin
    \/ (\E g \in sweep.todo : SweepAnalyze(g)) /\ UNCHANGED <<scheduler, calculator, learner, rides, accepts>>
    \/ SweepDispatchFull /\ UNCHANGED <<scheduler, calculator, learner, rides, accepts>>
    \/ SweepExecute /\ UNCHANGED <<scheduler, calculator, learner, rides, accepts>>
    \/ SweepBookings /\ UNCHANGED <<scheduler, calculator, learner, rides, accepts>>
    \/ JobEnd

\* one operation at a time, each run to completion, from an empty database
Quiet == sweep.pc = "idle" /\ \A w \in Workers : Idle(w)

Handler == "w1"

Next ==
    \/ Join(Handler, Callers, Preferences) /\ (Idle(Handler) => Quiet)
    \/ Leave(Handler, Callers) /\ (Idle(Handler) => Quiet)
    \/ Respond(Handler)
    \/ Sweep /\ (sweep.pc = "idle" => Quiet)
    \/ Tick(TimePoints) /\ Quiet

Spec == Init /\ [][Next]_vars

\* handlers and the sweep interleave at their reads and commits
ConcNext ==
    \/ \E w \in Workers : Join(w, ConcCallers, ConcPreferences)
    \/ \E w \in Workers : Leave(w, ConcCallers)
    \/ \E w \in Workers : Respond(w)
    \/ Sweep
    \/ Tick(ConcTimePoints)

ConcSpec == ConcInit /\ [][ConcNext]_vars

\* the same handlers over a database that holds no group with room: none at
\* all, or one full group, so that the first join creates a group
FreshSeedSizes == {0, 4}

FreshInit == Seeded(FreshSeedSizes)

FreshNext ==
    \/ \E w \in Workers : Join(w, ConcCallers, ConcPreferences)
    \/ \E w \in Workers : Leave(w, ConcCallers)
    \/ \E w \in Workers : Respond(w)
    \/ Tick(ConcTimePoints)

FreshSpec == FreshInit /\ [][FreshNext]_vars

----------------------------------------------------------------------------
(* The life of a group: a requester joins the riders of a forming group,   *)
(* the sweep closes it, a carrier accepts it, the requester leaves at any   *)
(* point; one operation at a time.                                          *)

RideCallers == {1}
RidePreferences == {FALSE}
RideTimePoints == {0, 601}
RideSeedSizes == {0, 1, 3}

RideInit == Seeded(RideSeedSizes)

RideNext ==
    \/ Join(Handler, RideCallers, RidePreferences) /\ (Idle(Handler) => Quiet)
    \/ Leave(Handler, RideCallers) /\ (Idle(Handler) => Quiet)
    \/ Respond(Handler)
    \/ Sweep /\ (sweep.pc = "idle" => Quiet)
    \/ (\E driver \in Drivers, g \in GroupIds : AcceptGroup(driver, g)) /\ Quiet
    \/ Tick(RideTimePoints) /\ Quiet

RideSpec == RideInit /\ [][RideNext]_vars

\* a request that has begun runs on to its response
Proceeds(w) ==
    \/ (JoinFind(w) \/ JoinAdd(w)) /\ UNCHANGED <<scheduler, calculator, learner, rides, accepts>>
    \/ (LeaveGroup(w) \/ LeaveReassign(w) \/ LeaveCancel(w))
          /\ UNCHANGED <<scheduler, calculator, learner, rides, accepts>>
    \/ Respond(w)

\* the same, with every request running on to its response and the
\* interval trigger firing again and again: whenever the job may run it
\* does run in the end, and a sweep that has begun goes on to its end
LiveSpec ==
    /\ RideInit /\ [][RideNext]_vars
    /\ WF_vars(Proceeds(Handler))
    /\ SF_vars(Sweep /\ (sweep.pc = "idle" => Quiet))

----------------------------------------------------------------------------
(* The sweep alone, over the situations one group can be in when the sweep *)
(* reaches it: a group formed at time 0 is evaluated at time now, while    *)
(* some requests of the route are still SEARCHING (their join has not      *)
(* reached _add_user_to_group, or has failed there).                       *)

PendingAt(k, pending, route, dist, age) ==
    [ i \in 1..pending |->
        [NewBooking(i, route, FALSE, IF i = 1 THEN dist ELSE dist + 1000) EXCEPT
            !.requested_at = now - age] ]

EvalInit ==
    /\ now \in EvalTimes
    /\ \E k \in EvalSizes, pending \in EvalPending, route \in Routes,
          dist \in EvalDistances, age \in EvalAges :
         /\ groups = SeededGroups(k, route)
         /\ members = SeededMembers(k)
         /\ bookings = SeededBookings(k, route, dist)
                          \o PendingAt(k, pending, route, dist, age)
    /\ historical \in [Routes -> EvalHistoricalScores]
    /\ decisionLog = <<>>
    /\ workers = [ w \in Workers |-> IdleWorker("none") ]
    /\ sweep = IdleSweep(0, ZeroStats)
    /\ scheduler = StartedScheduler
    /\ calculator = NoCall
    /\ learner = NoLearner
    /\ rides = <<>>
    /\ accepts = NoAccepts

EvalNext == Sweep

EvalSpec == EvalInit /\ [][EvalNext]_vars

----------------------------------------------------------------------------
(* A sweep and a leave at the same time.  Two groups are forming on the    *)
(* route (the first was full when the second was created, and members of   *)
(* the first have left since): group 1 holds user 1, alone or with user 3, *)
(* group 2 holds earlier riders.  User 1 leaves while the sweep runs.      *)

FailMembers(k1, k2) ==
    [ i \in 1..(k1 + k2) |->
        IF i <= k1
        THEN [ id |-> i, group_id |-> 1, user_id |-> 2 * i - 1, seat_number |-> i ]
        ELSE [ id |-> i, group_id |-> 2, user_id |-> Len(Gender) - k2 + (i - k1),
               seat_number |-> i - k1 ] ]

FailBookings(k1, k2, route, dist) ==
    [ i \in 1..(k1 + k2) |->
        [NewBooking(FailMembers(k1, k2)[i].user_id, route, FALSE, dist) EXCEPT
            !.request_status = "GROUPED",
            !.group_id = FailMembers(k1, k2)[i].group_id,
            !.requested_at = 0,
            !.grouped_at = 0] ]

FailInit ==
    /\ now \in FailTimes
    /\ \E k1 \in FailSizes, k2 \in FailOtherSizes, route \in Routes, dist \in JoinDistances :
         /\ groups = SeededGroups(k1, route) \o SeededGroups(k2, route)
         /\ members = FailMembers(k1, k2)
         /\ bookings = FailBookings(k1, k2, route, dist)
    /\ historical \in [Routes -> HistoricalScores]
    /\ decisionLog = <<>>
    /\ workers = [ w \in Workers |-> IdleWorker("none") ]
    /\ sweep = IdleSweep(0, ZeroStats)
    /\ scheduler = StartedScheduler
    /\ calculator = NoCall
    /\ learner = NoLearner
    /\ rides = <<>>
    /\ accepts = NoAccepts

FailNext ==
    \/ Leave(Handler, {1})
    \/ Respond(Handler)
    \/ Sweep

FailSpec == FailInit /\ [][FailNext]_vars

----------------------------------------------------------------------------
(* Joins alone, over the groups a requester may find forming on the route: *)
(* none, one or two, formed by earlier riders at time 0.  The earlier      *)
(* riders are men: one who passed women_only got a women-only group of his *)
(* own, the others share mixed groups (two mixed groups are both open when *)
(* members of the first left after it had filled and the second was        *)
(* created).                                                               *)

MatchGroups(k1, wo1, k2, wo2, route) ==
    (IF k1 = 0 THEN <<>>
     ELSE << [NewGroup(route, wo1) EXCEPT !.current_size = k1,
                                          !.first_user_joined_at = 0] >>)
    \o (IF k2 = 0 THEN <<>>
        ELSE << [NewGroup(route, wo2) EXCEPT !.current_size = k2,
                                             !.first_user_joined_at = 0] >>)

MatchMembers(k1, k2) ==
    [ i \in 1..(k1 + k2) |->
        [ id |-> i,
          group_id |-> IF i <= k1 THEN 1 ELSE 2,
          user_id |-> Len(Gender) - (k1 + k2) + i,
          seat_number |-> IF i <= k1 THEN i ELSE i - k1 ] ]

MatchBookings(k1, wo1, k2, wo2, route, dist) ==
    [ i \in 1..(k1 + k2) |->
        [NewBooking(MatchMembers(k1, k2)[i].user_id, route,
                    IF i <= k1 THEN wo1 ELSE wo2, dist) EXCEPT
            !.request_status = "GROUPED",
            !.group_id = MatchMembers(k1, k2)[i].group_id,
            !.requested_at = 0,
            !.grouped_at = 0] ]

MatchInit ==
    /\ now = 0
    /\ \E k1 \in MatchSizes, k2 \in MatchSizes, wo1 \in BOOLEAN, wo2 \in BOOLEAN,
          route \in Routes, dist \in JoinDistances :
         /\ k1 + k2 <= Cardinality(EarlierRiders)
         /\ k1 = 0 => (k2 = 0 /\ ~wo1)
         /\ k2 = 0 => ~wo2
         /\ wo1 => k1 = 1
         /\ wo2 => k2 = 1
         /\ groups = MatchGroups(k1, wo1, k2, wo2, route)
         /\ members = MatchMembers(k1, k2)
         /\ bookings = MatchBookings(k1, wo1, k2, wo2, route, dist)
    /\ historical \in [Routes -> HistoricalScores]
    /\ decisionLog = <<>>
    /\ workers = [ w \in Workers |-> IdleWorker("none") ]
    /\ sweep = IdleSweep(0, ZeroStats)
    /\ scheduler = StartedScheduler
    /\ calculator = NoCall
    /\ learner = NoLearner
    /\ rides = <<>>
    /\ accepts = NoAccepts

MatchNext ==
    \/ Join(Handler, Callers, Preferences)
    \/ Respond(Handler)

MatchSpec == MatchInit /\ [][MatchNext]_vars

----------------------------------------------------------------------------
(* The scheduler's life: started and stopped by the application, firing    *)
(* its trigger while one group that has waited past the maximum is         *)
(* forming.                                                                *)

SchedInit ==
    /\ now = MAX_WAIT_TIME_SECONDS + 1
    /\ \E k \in SchedSizes, route \in Routes, dist \in JoinDistances :
         /\ groups = SeededGroups(k, route)
         /\ members = SeededMembers(k)
         /\ bookings = SeededBookings(k, route, dist)
    /\ historical \in [Routes -> HistoricalScores]
    /\ decisionLog = <<>>
    /\ workers = [ w \in Workers |-> IdleWorker("none") ]
    /\ sweep = IdleSweep(0, ZeroStats)
    /\ scheduler = NoScheduler
    /\ calculator = NoCall
    /\ learner = NoLearner
    /\ rides = <<>>
    /\ accepts = NoAccepts

SchedNext ==
    \/ SchedulerStart
    \/ SchedulerStop
    \/ JobSkipped
    \/ Sweep

SchedSpec == SchedInit /\ [][SchedNext]_vars

----------------------------------------------------------------------------
(* The calculator called on its own, as the tests call it, with arguments  *)
(* in and out of their documented ranges.  max_size is a capacity, 1 or    *)
(* more; current_size runs from 0 to max_size.                             *)

ScoreHistorical == {-50, 0, 15, 50, 100, 150}
ScorePending == {0, 1, 2, 3, 40}
ScoreDistances == {0, 199, 200, 999, 9999}
ScoreWaits == {0, 59, 60, 180, 299, 600, 100000}
ScoreMaxSizes == {1, 4, 6}

ScoreInit ==
    /\ now = 0
    /\ groups = <<>>
    /\ members = <<>>
    /\ bookings = <<>>
    /\ historical \in [Routes -> HistoricalScores]
    /\ decisionLog = <<>>
    /\ workers = [ w \in Workers |-> IdleWorker("none") ]
    /\ sweep = IdleSweep(0, ZeroStats)
    /\ scheduler = StartedScheduler
    /\ learner = NoLearner
    /\ rides = <<>>
    /\ accepts = NoAccepts
    /\ \E historical_prob \in ScoreHistorical, pending_count \in ScorePending,
          nearest_distance \in ScoreDistances, wait_time \in ScoreWaits,
          max_size \in ScoreMaxSizes :
         \E current_size \in 0..max_size :
            calculator = [NoCall EXCEPT !.historical_prob = historical_prob,
                                        !.pending_count = pending_count,
                                        !.nearest_distance = nearest_distance,
                                        !.wait_time = wait_time,
                                        !.current_size = current_size,
                                        !.max_size = max_size]

\* calculate_final_probability is called with the arguments and returns
Calculate ==
    /\ ~calculator.called
    /\ calculator' = [calculator EXCEPT
            !.called = TRUE,
            !.result = calculate_final_probability(calculator.historical_prob,
                                                   calculator.pending_count,
                                                   calculator.nearest_distance,
                                                   calculator.wait_time,
                                                   calculator.current_size,
                                                   calculator.max_size)]
    /\ UNCHANGED <<now, groups, members, bookings, historical, decisionLog, workers, sweep,
                   scheduler, learner, rides, accepts>>

ScoreNext == Calculate

ScoreSpec == ScoreInit /\ [][ScoreNext]_vars

----------------------------------------------------------------------------
(* The daily rebuild run on its own over a synthetic history: three        *)
(* bookings on two routes, requested on a Monday at 9, on the Tuesday at   *)
(* 17 or on the next Monday at 9, some of them grouped after a wait.  The  *)
(* rebuild runs at the start of day 8 or of day 9, so the lookback of a    *)
(* week leaves the oldest bookings out.                                    *)

MaxRebuilds == 2      \* runs of build_historical_data over the whole run

RebuildRoutes == {1, 2}
RebuildLookbacks == {7, 30}
RebuildRequestTimes == {32400, 147600, 637200}
RebuildWaits == {None, 90, 700}
RebuildTimePoints == {691200, 777600}
HistoryLen == 3

SyntheticBooking(route, requested_at, wait) ==
    [NewBooking(1, route, FALSE, 0) EXCEPT
        !.request_status = IF wait = None THEN "CANCELLED" ELSE "GROUPED",
        !.requested_at = requested_at,
        !.grouped_at = IF wait = None THEN None ELSE requested_at + wait]

RebuildInit ==
    /\ now = 691200
    /\ groups = <<>>
    /\ members = <<>>
    /\ bookings \in [ 1..HistoryLen ->
                        { SyntheticBooking(route, requested_at, wait) :
                            route \in RebuildRoutes,
                            requested_at \in RebuildRequestTimes,
                            wait \in RebuildWaits } ]
    /\ historical \in [Routes -> HistoricalScores]
    /\ decisionLog = <<>>
    /\ workers = [ w \in Workers |-> IdleWorker("none") ]
    /\ sweep = IdleSweep(0, ZeroStats)
    /\ scheduler = StartedScheduler
    /\ calculator = NoCall
    /\ learner = NoLearner
    /\ rides = <<>>
    /\ accepts = NoAccepts

\* build_historical_data(route_id, lookback_days): one commit at the end
Rebuild(route_id, lookback_days) ==
    /\ Len(learner.runs) < MaxRebuilds
    /\ LET window == LookbackBookings(route_id, lookback_days)
           keys == BucketKeys(window)
           records == { BucketRecord(route_id, lookback_days, key, BucketBookings(window, key))
                        : key \in keys }
           updated == { record \in records :
                          \E r \in learner.buckets : NaturalKey(r) = NaturalKey(record) }
           stats == [ records_created |-> Cardinality(records \ updated),
                      records_updated |-> Cardinality(updated),
                      total_bookings_processed |-> Cardinality(window),
                      time_buckets |-> Cardinality(keys) ]
       IN learner' = [ buckets |-> UpsertAll(learner.buckets, records),
                       runs |-> Append(learner.runs,
                                       [ route_id |-> route_id,
                                         lookback_days |-> lookback_days,
                                         bookings |-> window,
                                         stats |-> stats ]) ]
    /\ UNCHANGED <<now, groups, members, bookings, historical, decisionLog, workers, sweep,
                   scheduler, calculator, rides, accepts>>

RebuildNext ==
    \/ \E route_id \in RebuildRoutes, lookback_days \in RebuildLookbacks :
          Rebuild(route_id, lookback_days)
    \/ Tick(RebuildTimePoints)

RebuildSpec == RebuildInit /\ [][RebuildNext]_vars

----------------------------------------------------------------------------
(* A sweep that runs after an earlier sweep has made a group READY.  Group *)
(* 1 began to wait at 0 and was dispatched at 601 as the maximum wait was  *)
(* exceeded; group 2 was formed after that and is FORMING.  The sweep      *)
(* runs while a member of either group leaves and a carrier accepts.       *)

ReadyTimes == {650, 800, 1300}          \* when the later sweep runs
ReadySizes == {2, 3}                    \* members of the READY group
ReadyOtherSizes == {1, 3, 4}            \* members of the FORMING group
ReadyCallers == {1, 7}                  \* a member of each group
ReadyDispatchedAt == 601

ReadyGroups(k1, k2, route) ==
    << [NewGroup(route, FALSE) EXCEPT
            !.status = "READY",
            !.current_size = k1,
            !.first_user_joined_at = 0,
            !.dispatched_at = ReadyDispatchedAt,
            !.dispatch_decision_type = "EARLY_DISPATCH",
            !.dispatch_probability_score =
                calculate_final_probability(NEUTRAL_PROBABILITY, 0, NO_PENDING_DISTANCE,
                                            ReadyDispatchedAt, k1, DEFAULT_MAX_SIZE),
            !.qr_code = <<"RQ", 1, ReadyDispatchedAt>>],
       [NewGroup(route, FALSE) EXCEPT
            !.current_size = k2,
            !.first_user_joined_at = ReadyDispatchedAt] >>

ReadyMembers(k1, k2) ==
    [ i \in 1..(k1 + k2) |->
        IF i <= k1
        THEN [ id |-> i, group_id |-> 1, user_id |-> i, seat_number |-> i ]
        ELSE [ id |-> i, group_id |-> 2, user_id |-> Len(Gender) - k2 + (i - k1),
               seat_number |-> i - k1 ] ]

ReadyBookings(k1, k2, route, dist) ==
    [ i \in 1..(k1 + k2) |->
        [NewBooking(ReadyMembers(k1, k2)[i].user_id, route, FALSE, dist) EXCEPT
            !.request_status = "GROUPED",
            !.group_id = ReadyMembers(k1, k2)[i].group_id,
            !.requested_at = IF i <= k1 THEN 0 ELSE ReadyDispatchedAt,
            !.grouped_at = ReadyDispatchedAt] ]

ReadyInit ==
    /\ now \in ReadyTimes
    /\ \E k1 \in ReadySizes, k2 \in ReadyOtherSizes, route \in Routes, dist \in JoinDistances :
         /\ groups = ReadyGroups(k1, k2, route)
         /\ members = ReadyMembers(k1, k2)
         /\ bookings = ReadyBookings(k1, k2, route, dist)
         /\ decisionLog =
              << [LogEntry(1, ReadyGroups(k1, k2, route)[1],
                           [action |-> "DISPATCH_NOW",
                            reasoning |-> "Maximum wait time exceeded"],
                           ReadyGroups(k1, k2, route)[1].dispatch_probability_score,
                           [pending_count |-> 0,
                            nearest_distance_meters |-> NO_PENDING_DISTANCE])
                    EXCEPT !.decision_time = ReadyDispatchedAt,
                           !.wait_time_seconds = ReadyDispatchedAt] >>
    /\ historical \in [Routes -> HistoricalScores]
    /\ workers = [ w \in Workers |-> IdleWorker("none") ]
    /\ sweep = IdleSweep(0, ZeroStats)
    /\ scheduler = StartedScheduler
    /\ calculator = NoCall
    /\ learner = NoLearner
    /\ rides = <<>>
    /\ accepts = NoAccepts

ReadyNext ==
    \/ Leave(Handler, ReadyCallers)
    \/ Respond(Handler)
    \/ Sweep
    \/ \E driver \in Drivers, g \in GroupIds : AcceptGroup(driver, g)

ReadySpec == ReadyInit /\ [][ReadyNext]_vars

----------------------------------------------------------------------------
(* Accept requests of two available drivers for the groups of ReadyInit,   *)
(* group 1 READY and group 2 FORMING, answered side by side.               *)

AcceptInit == ReadyInit

AcceptNext ==
    \E driver \in AcceptDrivers :
        \/ \E g \in GroupIds : AcceptBegin(driver, g)
        \/ AcceptCommit(driver)
        \/ AcceptRespond(driver)

AcceptSpec == AcceptInit /\ [][AcceptNext]_vars

----------------------------------------------------------------------------
(* Properties *)

MemberIdsOf(rows, g) == { rows[i].id : i \in { j \in DOMAIN rows : rows[j].group_id = g } }

\* C1: after any sequence of joins, leaves and sweeps, each run to
\* completion, every group has 0 <= current_size <= max_size.
C1_SizeWithinCapacity ==
    \A g \in GroupIds :
        RowExists(g) =>
            /\ 0 <= groups[g].current_size
            /\ groups[g].current_size <= groups[g].max_size

\* a full group exists while some requester has left a group
C1_Witness ==
    /\ Quiet
    /\ \E g \in GroupIds :
         RowExists(g) /\ groups[g].current_size = groups[g].max_size
    /\ \E b \in DOMAIN bookings : bookings[b].request_status = "CANCELLED"

\* C2: two joins that interleave at their reads and commits never leave a
\* group with more than max_size members, nor with current_size > max_size.
C2_NoOverfill ==
    \A g \in GroupIds :
        RowExists(g) =>
            /\ Cardinality(MembersOf(g)) <= groups[g].max_size
            /\ groups[g].current_size <= groups[g].max_size

\* C3: the commit of a join adds no member to a group that the sweep has
\* made READY and does not change that group's row.
C3_JoinLeavesReadyGroupAlone ==
    [][ \A w \in Workers :
          (workers[w].pc = "add_user" /\ workers'[w].pc # "add_user") =>
             \A g \in GroupIds :
                groups[g].status = "READY" =>
                   /\ groups'[g] = groups[g]
                   /\ MemberIdsOf(members', g) = MemberIdsOf(members, g) ]_vars

\* C4: the commits of a leave remove no member from a group that the sweep
\* has made READY, do not change or delete that group's row, and delete a
\* group only while it is FORMING.
C4_LeaveLeavesReadyGroupAlone ==
    [][ \A w \in Workers :
          (workers[w].pc \in {"reassign", "cancel"} /\ workers'[w].pc # workers[w].pc) =>
             \A g \in GroupIds :
                /\ groups[g].status = "READY" =>
                      /\ groups'[g] = groups[g]
                      /\ MemberIdsOf(members', g) = MemberIdsOf(members, g)
                /\ (groups'[g].status = "DELETED" /\ groups[g].status # "DELETED") =>
                      groups[g].status = "FORMING" ]_vars

\* the conditions of the rules, read from a decision log row
RuleA(e) ==
    /\ e.pending_bookings_count >= 2
    /\ e.nearest_pending_distance_meters < 500
    /\ e.wait_time_seconds > 180
RuleB(e) == e.final_probability_score < 20 * 100 /\ e.wait_time_seconds > 180
RuleC(e) == e.final_probability_score > 80 * 100
RuleD(e) == e.wait_time_seconds > 600

\* C5: for every group the sweep scores (not full, waited 60 s or more) the
\* action is that of the first matching rule: (a) DISPATCH, (b) DISPATCH,
\* (c) WAIT, (d) DISPATCH, otherwise WAIT; the comparisons are strict; and
\* the action the sweep goes on to execute is the logged one.
C5_FirstMatchingRule ==
    /\ \A k \in DOMAIN decisionLog :
         LET e == decisionLog[k]
         IN  /\ e.wait_time_seconds >= 60
             /\ e.decision_made \in {"DISPATCH_NOW", "WAIT"}
             /\ RuleA(e) => e.decision_made = "DISPATCH_NOW"
             /\ (~RuleA(e) /\ RuleB(e)) => e.decision_made = "DISPATCH_NOW"
             /\ (~RuleA(e) /\ ~RuleB(e) /\ RuleC(e)) => e.decision_made = "WAIT"
             /\ (~RuleA(e) /\ ~RuleB(e) /\ ~RuleC(e) /\ RuleD(e)) =>
                    e.decision_made = "DISPATCH_NOW"
             /\ (~RuleA(e) /\ ~RuleB(e) /\ ~RuleC(e) /\ ~RuleD(e)) =>
                    e.decision_made = "WAIT"
    /\ sweep.pc = "execute" =>
         sweep.decision.action = decisionLog[Len(decisionLog)].decision_made

\* at exactly 180 s two requesters within 500 m do not trigger rule (a)
C5_Witness ==
    \E k \in DOMAIN decisionLog :
        /\ decisionLog[k].wait_time_seconds = 180
        /\ decisionLog[k].pending_bookings_count >= 2
        /\ decisionLog[k].nearest_pending_distance_meters < 500
        /\ decisionLog[k].decision_made = "WAIT"

\* the sweep has finished with group g
Swept(g) == sweep.runs >= 1 /\ g \notin sweep.todo /\ sweep.pc \in {"idle", "next"}

\* C6: a full group that was FORMING when the sweep reached it is READY,
\* FULL_GROUP, score 100, whatever the other inputs are.
C6_FullGroupDispatched ==
    \A g \in GroupIds :
        ( /\ RowExists(g)
          /\ groups[g].current_size >= groups[g].max_size
          /\ Swept(g) ) =>
            /\ groups[g].status = "READY"
            /\ groups[g].dispatch_decision_type = "FULL_GROUP"
            /\ groups[g].dispatch_probability_score = 100 * 100

\* a full group dispatched while history and pending requesters speak for waiting
C6_Witness ==
    \E g \in GroupIds :
        /\ groups[g].status = "READY"
        /\ groups[g].dispatch_decision_type = "FULL_GROUP"
        /\ historical[groups[g].route_id] = 100
        /\ Cardinality(PendingBookings(groups[g].route_id)) >= 3

\* the sweep takes group g off its list, seeing it with this wait time
Reaches(g, waits) ==
    /\ sweep.pc = "next"
    /\ ~sweep.broken
    /\ g \in sweep.todo
    /\ g \notin sweep'.todo
    /\ get_wait_time_seconds(SweepView(g)) \in waits

SkippedUntouched ==
    /\ sweep'.pc = "next"
    /\ sweep'.stats.skipped = sweep.stats.skipped + 1
    /\ UNCHANGED <<groups, members, bookings, decisionLog>>

Evaluated == decisionLog' # decisionLog \/ sweep'.pc = "dispatch"

\* C7 as stated: a group younger than 60 s is skipped whatever its size,
\* a group of exactly 60 s is not.
C7_YoungGroupSkipped ==
    [][ \A g \in GroupIds :
          /\ Reaches(g, 0..59) => SkippedUntouched
          /\ Reaches(g, {60}) => Evaluated ]_vars

\* C7, amended: a group younger than 60 s that is not full is skipped: the
\* group, its members and bookings stay as they are and nothing is logged;
\* a group of exactly 60 s is not skipped.
C7_YoungOpenGroupSkipped ==
    [][ \A g \in GroupIds :
          /\ (Reaches(g, 0..59) /\ SweepView(g).current_size < SweepView(g).max_size)
                => SkippedUntouched
          /\ Reaches(g, {60}) => Evaluated ]_vars

\* a sweep has skipped a 59 s old open group
C7_Witness ==
    /\ now = 59
    /\ sweep.pc = "idle"
    /\ sweep.stats.skipped = 1
    /\ decisionLog = <<>>
    /\ \E g \in GroupIds :
         /\ groups[g].status = "FORMING"
         /\ groups[g].first_user_joined_at = 0
         /\ groups[g].current_size < groups[g].max_size

\* C8: the kind stamped on a dispatched group names the rule that fired:
\* FULL_GROUP without scoring, EARLY_DISPATCH for rules (a) and (b), FORCED
\* for rule (d).
C8_KindNamesRule ==
    \A g \in GroupIds :
        groups[g].status = "READY" =>
            LET fired == { k \in DOMAIN decisionLog :
                             /\ decisionLog[k].group_id = g
                             /\ decisionLog[k].decision_made = "DISPATCH_NOW" }
            IN  IF fired = {}
                THEN groups[g].dispatch_decision_type = "FULL_GROUP"
                ELSE \A k \in fired :
                        groups[g].dispatch_decision_type =
                            IF RuleA(decisionLog[k]) \/ RuleB(decisionLog[k])
                            THEN "EARLY_DISPATCH" ELSE "FORCED"

Stamped(group) ==
    /\ group.dispatched_at # None
    /\ group.dispatch_decision_type \in {"FULL_GROUP", "EARLY_DISPATCH", "FORCED"}
    /\ group.dispatch_probability_score # None
    /\ group.qr_code # NoToken

\* C9: the step that makes a group READY takes it from FORMING and sets
\* dispatched_at, the decision kind, the score and the token; so every READY
\* group has all four.
C9_ReadyGroupStamped ==
    /\ [](\A g \in GroupIds : groups[g].status = "READY" => Stamped(groups[g]))
    /\ [][ \A g \in GroupIds :
             (groups'[g].status = "READY" /\ groups[g].status # "READY") =>
                 /\ groups[g].status = "FORMING"
                 /\ groups[g].dispatched_at = None
                 /\ groups[g].qr_code = NoToken
                 /\ Stamped(groups'[g])
                 /\ groups'[g].dispatched_at = now ]_vars

\* groups dispatched as full and after the maximum wait
C9_Witness ==
    /\ \E g \in GroupIds :
         groups[g].status = "READY" /\ groups[g].dispatch_decision_type = "FULL_GROUP"
    /\ \E g \in GroupIds :
         groups[g].status = "READY" /\ groups[g].dispatch_decision_type = "EARLY_DISPATCH"

\* C10: a WAIT decision leaves the group as it is: logging it and executing
\* it change no group, member or booking row; only the log row is added.
C10_WaitChangesNothing ==
    [][ /\ ( /\ sweep.pc = "next"
             /\ sweep'.pc = "execute"
             /\ sweep'.decision.action = "WAIT" ) =>
               /\ UNCHANGED <<groups, members, bookings>>
               /\ Len(decisionLog') = Len(decisionLog) + 1
        /\ ( /\ sweep.pc = "execute"
             /\ sweep.decision.action = "WAIT"
             /\ sweep'.pc # "execute" ) =>
               /\ UNCHANGED <<groups, members, bookings, decisionLog>>
               /\ sweep'.stats.waiting = sweep.stats.waiting + 1 ]_vars

\* a sweep has told a group to keep waiting and the group is still FORMING
C10_Witness ==
    /\ sweep.pc = "idle"
    /\ sweep.stats.waiting = 1
    /\ \E k \in DOMAIN decisionLog :
         /\ decisionLog[k].decision_made = "WAIT"
         /\ groups[decisionLog[k].group_id].status = "FORMING"
         /\ groups[decisionLog[k].group_id].dispatched_at = None

\* the decision log rows written for group g
LogRowsOf(g) == { k \in DOMAIN decisionLog : decisionLog[k].group_id = g }

\* C11: every FORMING group that a sweep evaluates and does not skip as
\* younger than 60 s has exactly one decision log row from that sweep,
\* whether it was told to wait or dispatched, a full group included.
C11_OneLogEntryPerEvaluation ==
    \A g \in GroupIds :
        ( /\ sweep.runs = 1
          /\ Swept(g)
          /\ RowExists(g)
          /\ groups[g].first_user_joined_at # None
          /\ now - groups[g].first_user_joined_at >= 60 ) =>
            Cardinality(LogRowsOf(g)) = 1

\* C12: when the evaluation of one group raises, the other groups of the
\* sweep are still evaluated and decided: once the sweep has returned, a
\* full group is READY and a group that has waited 60 s or more without
\* filling has its decision logged.
C12_FailureIsolated ==
    (sweep.pc = "idle" /\ sweep.runs = 1) =>
        \A g \in GroupIds :
            ( /\ RowExists(g)
              /\ groups[g].first_user_joined_at # None
              /\ now - groups[g].first_user_joined_at >= 60 ) =>
                IF groups[g].current_size >= groups[g].max_size
                THEN groups[g].status = "READY"
                ELSE LogRowsOf(g) # {}

Counted(stats) == stats.dispatched + stats.waiting + stats.skipped

C15_StartStopIdempotent ==
    /\ [](/\ scheduler.jobs <= 1
          /\ scheduler.started <=> scheduler.jobs = 1)
    /\ [][ scheduler'.calls # scheduler.calls =>
             /\ UNCHANGED <<sweep, groups, members, bookings, decisionLog>>
             /\ (scheduler.started /\ scheduler'.started) =>
                    /\ scheduler'.last = "already running"
                    /\ scheduler'.jobs = scheduler.jobs
                    /\ scheduler'.instances = scheduler.instances
             /\ (~scheduler.started /\ ~scheduler'.started) =>
                    /\ scheduler'.last = "nothing to stop"
                    /\ scheduler'.jobs = 0
                    /\ scheduler'.instances = 0 ]_vars

\* start was called again while the job of the first start was running
C15_Witness ==
    /\ scheduler.last = "already running"
    /\ scheduler.calls >= 2
    /\ scheduler.jobs = 1
    /\ scheduler.instances = 1

\* the seat numbers of a group's members, in join order
SeatsOf(g) ==
    LET rows == Without(members, { i \in DOMAIN members : members[i].group_id # g })
    IN  [ i \in DOMAIN rows |-> rows[i].seat_number ]

\* no user has sent more than one request
OneBookingEach ==
    \A a, b \in DOMAIN bookings : bookings[a].user_id = bookings[b].user_id => a = b

\* C16: after any sequence of completed joins and leaves the seat numbers
\* of every group's members are 1, 2, ..., current_size in join order
\* (stated for the runs in which every user has joined at most once).
C16_SeatsContiguous ==
    (Quiet /\ OneBookingEach) =>
        \A g \in GroupIds :
            RowExists(g) => SeatsOf(g) = [ i \in 1..groups[g].current_size |-> i ]

ActiveBookingsOf(user) ==
    { b \in DOMAIN bookings :
        /\ bookings[b].user_id = user
        /\ bookings[b].request_status \in {"SEARCHING", "GROUPED"} }

\* C17: a join by a requester who has a SEARCHING or GROUPED request is
\* rejected before anything is created, so every requester has at most one
\* active request and is a member of at most one group, once.
C17_OneActiveBooking ==
    \A user \in Users :
        /\ Cardinality(ActiveBookingsOf(user)) <= 1
        /\ Cardinality({ i \in DOMAIN members : members[i].user_id = user }) <= 1

CandidatesOf(w) ==
    LET booking == bookings[workers[w].booking_id]
    IN  CompatibleGroups(booking.route_id,
                         booking.women_only_preference \/ Gender[workers[w].user_id] = "FEMALE")

\* the join of handler w gets its group in this step
Placed(w) == workers[w].pc = "find_group" /\ workers'[w].pc = "add_user"

\* C19: when a join finds several compatible FORMING groups with a free
\* seat, the requester goes to one whose current_size is the largest among
\* them.
C19_BestFit ==
    [][ \A w \in Workers :
          (Placed(w) /\ Cardinality(CandidatesOf(w)) >= 2) =>
             /\ workers'[w].group_id \in CandidatesOf(w)
             /\ \A h \in CandidatesOf(w) :
                  groups[workers'[w].group_id].current_size >= groups[h].current_size ]_vars

\* C20: a join creates a new group if and only if the route has no FORMING
\* group with a free seat whose women_only flag equals (preference or
\* female), and the new group carries that flag.
C20_NewGroupIffNoCandidate ==
    [][ \A w \in Workers :
          Placed(w) =>
             /\ Len(groups') = Len(groups) + 1 <=> CandidatesOf(w) = {}
             /\ Len(groups') = Len(groups) + 1 =>
                  groups'[Len(groups')].women_only =
                      ( \/ bookings[workers[w].booking_id].women_only_preference
                        \/ Gender[workers[w].user_id] = "FEMALE" ) ]_vars

\* the join of handler w commits _add_user_to_group and returns its dict
JoinReturns(w) ==
    /\ workers[w].pc = "add_user"
    /\ workers'[w].pc = "returned"
    /\ workers'[w].ret = "ok"

\* C21: a successful join returns the seat number that equals the group's
\* current_size after the join, which is its size before the join plus one,
\* and leaves the requester's request GROUPED and bound to the returned
\* group; no completed join leaves a request SEARCHING.
C21_JoinResult ==
    /\ [](Quiet => \A b \in DOMAIN bookings : bookings[b].request_status # "SEARCHING")
    /\ [][ \A w \in Workers :
             JoinReturns(w) =>
                LET r == workers'[w].result
                    b == workers[w].booking_id
                IN  /\ RowExists(r.group_id)
                    /\ r.seat_number = groups'[r.group_id].current_size
                    /\ r.current_size = groups'[r.group_id].current_size
                    /\ r.seat_number = groups[r.group_id].current_size + 1
                    /\ \E i \in DOMAIN members' :
                         /\ members'[i].id = b
                         /\ members'[i].group_id = r.group_id
                         /\ members'[i].seat_number = r.seat_number
                    /\ bookings'[b].request_status = "GROUPED"
                    /\ bookings'[b].group_id = r.group_id ]_vars

\* a join has taken the last seat of a group after another requester left it
C21_Witness ==
    /\ \E w \in Workers :
         /\ workers[w].pc = "returned"
         /\ workers[w].op = "join"
         /\ workers[w].ret = "ok"
         /\ workers[w].result.seat_number = DEFAULT_MAX_SIZE
    /\ \E b \in DOMAIN bookings : bookings[b].request_status = "CANCELLED"

\* the groups formed by requesters who all passed women_only=False that a
\* further requester on the route could still be seated in
OpenPlainGroups(route) ==
    { g \in GroupIds :
        /\ groups[g].route_id = route
        /\ groups[g].status = "FORMING"
        /\ groups[g].current_size < groups[g].max_size
        /\ MembersOf(g) # {}
        /\ \A i \in MembersOf(g) : ~bookings[members[i].id].women_only_preference }

\* C22: a requester who passes women_only=False, whatever the gender, is
\* placed in the group that the earlier requesters of the route who passed
\* women_only=False are forming, as long as it has a free seat, and gets the
\* next seat number there.
C22_SameGroupInJoinOrder ==
    [][ \A w \in Workers :
          /\ ( /\ Placed(w)
               /\ ~bookings[workers[w].booking_id].women_only_preference
               /\ OpenPlainGroups(bookings[workers[w].booking_id].route_id) # {} ) =>
                 workers'[w].group_id \in
                     OpenPlainGroups(bookings[workers[w].booking_id].route_id)
          /\ JoinReturns(w) =>
                 workers'[w].result.seat_number =
                     groups[workers'[w].result.group_id].current_size + 1 ]_vars

\* the member rows without their seat numbers
MemberKeys(rows) == { [id |-> rows[i].id, group_id |-> rows[i].group_id, user_id |-> rows[i].user_id] : i \in DOMAIN rows }

\* C23: a leave by a member of a FORMING group of two or more removes that
\* requester's member row and no other, lowers the group's current_size by
\* exactly 1 and changes nothing else of the group, and then marks the
\* requester's request CANCELLED, changing no other request.
C23_LeaveRemovesOneMember ==
    [][ \A w \in Workers :
          LET me == workers[w]
              g == me.group_id
          IN  /\ (me.pc = "reassign" /\ workers'[w].pc # "reassign") =>
                    /\ groups[g].status = "FORMING"
                    /\ groups[g].current_size >= 2
                    /\ \E gone \in MemberKeys(members) :
                         /\ gone.user_id = me.user_id
                         /\ gone.group_id = g
                         /\ gone.id = me.member_id
                         /\ MemberKeys(members') = MemberKeys(members) \ {gone}
                    /\ Len(members') = Len(members) - 1
                    /\ groups' = [groups EXCEPT ![g].current_size = groups[g].current_size - 1]
                    /\ workers'[w].pc = "cancel"
              /\ ( /\ me.pc = "cancel"
                   /\ me.op = "leave"
                   /\ g # 0
                   /\ ~me.delete_group
                   /\ workers'[w].pc # "cancel" ) =>
                    /\ UNCHANGED <<groups, members>>
                    /\ bookings' = [bookings EXCEPT
                                        ![me.booking_id].request_status = "CANCELLED"]
                    /\ bookings[me.booking_id].user_id = me.user_id
                    /\ workers'[w].ret = "ok" ]_vars

\* a requester has left a group of four, which goes on forming with three
C23_Witness ==
    /\ \E w \in Workers :
         /\ workers[w].pc = "returned"
         /\ workers[w].op = "leave"
         /\ workers[w].ret = "ok"
    /\ \E b \in DOMAIN bookings :
         /\ bookings[b].request_status = "CANCELLED"
         /\ bookings[b].group_id # None
         /\ groups[bookings[b].group_id].status = "FORMING"
         /\ groups[bookings[b].group_id].current_size = DEFAULT_MAX_SIZE - 1
         /\ Cardinality(MembersOf(bookings[b].group_id)) = DEFAULT_MAX_SIZE - 1

\* C24: a leave by the last member of a FORMING group succeeds: the group
\* row and its member row are deleted and the request is CANCELLED, also
\* when a sweep has logged a WAIT for the group; no empty FORMING group is
\* left behind by completed operations.
C24_LastLeaveDeletesGroup ==
    /\ [](Quiet => \A g \in GroupIds :
                      groups[g].status = "FORMING" => groups[g].current_size >= 1)
    /\ [][ \A w \in Workers :
             LET me == workers[w]
                 g == me.group_id
             IN  ( /\ me.pc = "cancel"
                   /\ me.op = "leave"
                   /\ me.delete_group
                   /\ workers'[w].pc # "cancel" ) =>
                     /\ workers'[w].ret = "ok"
                     /\ groups'[g].status = "DELETED"
                     /\ MemberIdsOf(members', g) = {}
                     /\ bookings'[me.booking_id].request_status = "CANCELLED" ]_vars

\* C25: a leave by a requester whose request is bound to a READY or
\* DISPATCHED group changes no group row and no member row, and still ends
\* by marking that request, and no other, CANCELLED.
C25_LeaveOfClosedGroup ==
    [][ \A w \in Workers :
          LET me == workers[w]
              b == me.booking_id
          IN  ( /\ me.op = "leave"
                /\ me.pc \in {"leave_group", "cancel"}
                /\ bookings[b].group_id # None
                /\ groups[bookings[b].group_id].status \in {"READY", "DISPATCHED"}
                /\ workers'[w] # me ) =>
                  /\ UNCHANGED <<groups, members>>
                  /\ workers'[w].pc \in {"cancel", "returned"}
                  /\ workers'[w].pc = "cancel" => UNCHANGED bookings
                  /\ workers'[w].pc = "returned" =>
                        /\ workers'[w].ret = "ok"
                        /\ bookings' = [bookings EXCEPT ![b].request_status = "CANCELLED"] ]_vars

\* a requester has left a group that a carrier had accepted: the request is
\* CANCELLED, the group still counts and lists the requester
C25_Witness ==
    /\ \E w \in Workers :
         /\ workers[w].pc = "returned"
         /\ workers[w].op = "leave"
         /\ workers[w].ret = "ok"
    /\ \E b \in DOMAIN bookings :
         /\ bookings[b].request_status = "CANCELLED"
         /\ bookings[b].user_id \in Requesters
         /\ bookings[b].group_id # None
         /\ groups[bookings[b].group_id].status = "DISPATCHED"
         /\ \E i \in MembersOf(bookings[b].group_id) : members[i].id = b
         /\ Cardinality(MembersOf(bookings[b].group_id)) =
                groups[bookings[b].group_id].current_size

\* handler w is called for a leave in this step
LeaveCalled(w) == Idle(w) /\ workers'[w].op = "leave"

\* C26: a leave by a requester who has no SEARCHING or GROUPED request
\* raises the not-found error, which the caller receives as 404, and
\* changes no request, member or group; a leave raises it in no other case.
C26_LeaveWithoutRequest ==
    [][ \A w \in Workers :
          LeaveCalled(w) =>
             /\ ActiveBookingsOf(workers'[w].user_id) = {} =>
                   /\ workers'[w].pc = "returned"
                   /\ workers'[w].ret = "ValueError"
                   /\ http_status(workers'[w].op, workers'[w].ret) = 404
                   /\ UNCHANGED <<groups, members, bookings, decisionLog>>
             /\ workers'[w].ret = "ValueError" =>
                   ActiveBookingsOf(workers'[w].user_id) = {} ]_vars

\* a requester who had left calls leave again and gets the error
C26_Witness ==
    \E w \in Workers :
        /\ workers[w].pc = "returned"
        /\ workers[w].op = "leave"
        /\ workers[w].ret = "ValueError"
        /\ \E b \in DOMAIN bookings :
             /\ bookings[b].user_id = workers[w].user_id
             /\ bookings[b].request_status = "CANCELLED"

\* C27: CANCELLED is terminal: no join, leave or sweep changes the status
\* of a request that is CANCELLED.
C27_CancelledIsTerminal ==
    [][ \A b \in DOMAIN bookings :
          bookings[b].request_status = "CANCELLED" =>
              bookings'[b].request_status = "CANCELLED" ]_vars

\* C28: a group's status only moves forward: FORMING to READY, by a step of
\* the sweep on that group and by nothing else; READY to DISPATCHED, by a
\* carrier's acceptance and by nothing else; FORMING to deleted, by a leave;
\* no other change of a group's status happens.
C28_StatusMovesForward ==
    [][ \A g \in GroupIds :
          groups'[g].status # groups[g].status =>
             \/ /\ groups[g].status = "FORMING"
                /\ groups'[g].status = "READY"
                /\ sweep.pc \in {"dispatch", "execute"}
                /\ sweep.group_id = g
                /\ sweep'.pc = "bookings"
                /\ UNCHANGED workers
             \/ /\ groups[g].status = "READY"
                /\ groups'[g].status = "DISPATCHED"
                /\ groups[g].assigned_driver_id = None
                /\ groups'[g].assigned_driver_id \in Drivers
                /\ UNCHANGED <<workers, sweep>>
             \/ /\ groups[g].status = "FORMING"
                /\ groups'[g].status = "DELETED"
                /\ \E w \in Workers : workers[w].op = "leave" /\ workers[w].group_id = g
                /\ UNCHANGED sweep ]_vars

\* a carrier has accepted a group that the sweep had closed, and a requester
\* who joined afterwards is forming another
C28_Witness ==
    /\ \E g \in GroupIds :
         /\ groups[g].status = "DISPATCHED"
         /\ groups[g].assigned_driver_id \in Drivers
         /\ groups[g].dispatched_at # None
    /\ \E h \in GroupIds : groups[h].status = "FORMING"
    /\ Quiet

\* C29: a ready notification that fails does not fail the evaluation of
\* the group and undoes nothing: the step that delivers it leaves the group
\* READY with its stamps, counts the group as dispatched, never as skipped,
\* and leaves the sweep's session usable, whatever becomes of the delivery;
\* executing a WAIT counts the group as waiting.
C29_NotificationFailureIgnored ==
    /\ [](sweep.notified = "failed" =>
            /\ sweep.pc = "next"
            /\ sweep.stats.dispatched >= 1
            /\ \E g \in GroupIds : groups[g].status = "READY" /\ Stamped(groups[g]))
    /\ [][ /\ (sweep.pc = "bookings" /\ sweep'.pc # "bookings") =>
                /\ sweep'.pc = "next"
                /\ sweep'.notified \in Deliveries
                /\ sweep'.stats = [sweep.stats EXCEPT !.dispatched = @ + 1]
                /\ sweep'.broken = sweep.broken
                /\ groups[sweep.group_id].status = "READY"
                /\ Stamped(groups[sweep.group_id])
                /\ UNCHANGED <<groups, members, decisionLog>>
           /\ (sweep.pc = "execute" /\ sweep.decision.action = "WAIT" /\ sweep'.pc # "execute") =>
                /\ sweep'.stats = [sweep.stats EXCEPT !.waiting = @ + 1]
                /\ sweep'.broken = sweep.broken ]_vars

\* the ready notification of a group dispatched after the maximum wait has
\* failed: the group is READY and the sweep has counted it as dispatched
C29_Witness ==
    /\ sweep.notified = "failed"
    /\ sweep.stats.dispatched = 1
    /\ sweep.stats.skipped = 0
    /\ \E g \in GroupIds :
         /\ groups[g].status = "READY"
         /\ groups[g].dispatch_decision_type = "EARLY_DISPATCH"
         /\ groups[g].dispatched_at = now
         /\ groups[g].qr_code # NoToken

\* C30: the score calculate_final_probability returns lies in [0, 100]
\* (0 to 10000 hundredths) for every input: a historical probability in or
\* out of [0, 100], any pending count from 0, any distance, any wait time
\* and any current_size from 0 to max_size.
C30_ScoreInRange ==
    calculator.called =>
        /\ 0 <= calculator.result
        /\ calculator.result <= 100 * 100

\* the calculator has been called with a historical probability of 150 and
\* every other input at its best: the score is 96
C30_Witness ==
    /\ calculator.called
    /\ calculator.historical_prob = 150
    /\ calculator.pending_count >= 3
    /\ calculator.nearest_distance < 200
    /\ calculator.wait_time < 60
    /\ calculator.current_size = calculator.max_size
    /\ calculator.result = 96 * 100

\* the runs of the rebuild made for a route before the latest run
EarlierRuns(runs, route_id) ==
    { i \in 1..(Len(runs) - 1) : runs[i].route_id = route_id }

\* the latest run had the inputs of the run made before it for its route
Repeated(runs) ==
    /\ Len(runs) >= 2
    /\ LET last == runs[Len(runs)]
           earlier == EarlierRuns(runs, last.route_id)
       IN /\ earlier # {}
          /\ LET prev == runs[CHOOSE i \in earlier : \A j \in earlier : j <= i]
             IN /\ prev.lookback_days = last.lookback_days
                /\ prev.bookings = last.bookings

\* no two rows of the table have the same natural key
OnePerKey(rows) ==
    \A r1, r2 \in rows : NaturalKey(r1) = NaturalKey(r2) => r1 = r2

\* C31: a rebuild that runs again for a route, with the lookback and the
\* bookings of the lookback window the route's previous run had, leaves the
\* table of buckets as it was: it creates no row, every row keeps its field
\* values, and there is one row per (route, weekday, hour, slot).
C31_RebuildIdempotent ==
    [][ (Len(learner'.runs) = Len(learner.runs) + 1 /\ Repeated(learner'.runs))
        => /\ learner'.buckets = learner.buckets
           /\ learner'.runs[Len(learner'.runs)].stats.records_created = 0
           /\ OnePerKey(learner'.buckets) ]_vars

\* a second run for a route over the same two or more bookings has updated
\* a row that counts them
C31_Witness ==
    /\ Repeated(learner.runs)
    /\ learner.runs[Len(learner.runs)].stats.records_updated >= 1
    /\ \E r \in learner.buckets :
         /\ r.route_id = learner.runs[Len(learner.runs)].route_id
         /\ r.total_bookings >= 2
         /\ r.avg_wait_time_seconds > 0

\* C32: every group that a sweep scores after more than 600 seconds of
\* waiting gets the decision DISPATCH_NOW, whatever the historical
\* probability, the pending bookings, their distance and the group's size:
\* a score above 80 at such a wait is reached only with two or more pending
\* bookings nearer than 200 m, which the strategic rule takes first.
C32_SafetyNetNotPreempted ==
    \A i \in DOMAIN decisionLog :
        decisionLog[i].wait_time_seconds > MAX_WAIT_TIME_SECONDS
        => /\ decisionLog[i].decision_made = "DISPATCH_NOW"
           /\ decisionLog[i].final_probability_score > PROBABILITY_THRESHOLD_HIGH * 100
              => /\ decisionLog[i].reasoning = "STRATEGIC"
                 /\ decisionLog[i].pending_bookings_count >= 2
                 /\ decisionLog[i].nearest_pending_distance_meters < 200

\* a group that has waited 601 seconds scored above 80 and was dispatched
C32_Witness ==
    \E i \in DOMAIN decisionLog :
        /\ decisionLog[i].wait_time_seconds > MAX_WAIT_TIME_SECONDS
        /\ decisionLog[i].final_probability_score > PROBABILITY_THRESHOLD_HIGH * 100
        /\ decisionLog[i].decision_made = "DISPATCH_NOW"
        /\ groups[decisionLog[i].group_id].status = "READY"

\* the ids a group can have: the seeded group and one per join
GroupIdRange == 1..(1 + MaxJoins)

\* group g is FORMING with a member
FormingWithMember(g) ==
    /\ RowExists(g)
    /\ groups[g].status = "FORMING"
    /\ MemberIdsOf(members, g) # {}

\* group g has waited longer than the maximum and a sweep is still to fire
Overdue(g) ==
    /\ FormingWithMember(g)
    /\ get_wait_time_seconds(groups[g]) > MAX_WAIT_TIME_SECONDS
    /\ sweep.pc = "idle"
    /\ sweep.runs < MaxSweeps

\* C33: with the trigger firing on, a FORMING group with a member that has
\* waited more than 600 seconds stops being FORMING: a sweep makes it READY
\* or its last member leaves and it is deleted.  Joins and leaves made in the
\* meantime do not put this off, since they leave first_user_joined_at alone.
C33_FormingGroupEnds ==
    \A g \in GroupIdRange :
        Overdue(g) ~> (~RowExists(g) \/ groups[g].status # "FORMING")

\* a group whose wait began at 0 was joined at 601 and then made READY by
\* the sweep with the decision "Maximum wait time exceeded"
C33_Witness ==
    \E g \in GroupIds :
        /\ groups[g].status = "READY"
        /\ groups[g].first_user_joined_at = 0
        /\ groups[g].dispatched_at > MAX_WAIT_TIME_SECONDS
        /\ groups[g].dispatch_decision_type # "FULL_GROUP"
        /\ \E b \in DOMAIN bookings :
             /\ bookings[b].group_id = g
             /\ bookings[b].requested_at > MAX_WAIT_TIME_SECONDS

\* C34: whatever the interleaving of joins, leaves and sweeps, the rows the
\* database holds after any commit have, for each group, a current_size
\* equal to the number of its member rows.
C34_SizeCountsMembers ==
    \A g \in GroupIds :
        RowExists(g) => groups[g].current_size = Cardinality(MembersOf(g))

\* the fields a dispatch writes on the group
DispatchStamp(group) ==
    <<group.dispatched_at, group.dispatch_decision_type, group.dispatch_probability_score,
      group.qr_code>>

\* C35: a group that is READY (or already accepted by a carrier) keeps its
\* dispatched_at, decision kind, score and token and never returns to
\* FORMING; a token is issued only to a FORMING group that has none; and the
\* only READY group a sweep ever has on its list is the one it has just made
\* READY itself and is about to notify, so no group is dispatched twice.
C35_ReadyNotEvaluatedAgain ==
    /\ [][ \A g \in GroupIds :
             /\ groups[g].status \in {"READY", "DISPATCHED"}
                => /\ DispatchStamp(groups'[g]) = DispatchStamp(groups[g])
                   /\ groups'[g].status \in {"READY", "DISPATCHED"}
             /\ groups'[g].qr_code # groups[g].qr_code
                => /\ groups[g].status = "FORMING"
                   /\ groups[g].qr_code = NoToken ]_vars
    /\ [](\A g \in GroupIds :
             (/\ groups[g].status \in {"READY", "DISPATCHED"}
              /\ (g \in sweep.todo \/ g = sweep.group_id))
             => /\ sweep.pc = "bookings"
                /\ sweep.group_id = g
                /\ groups[g].dispatched_at = now)

\* a sweep has run to its end next to a group that an earlier sweep had made
\* READY: it dispatched the other group and left the first as it was
C35_Witness ==
    /\ sweep.pc = "idle"
    /\ sweep.runs = 1
    /\ sweep.stats.analyzed = 1
    /\ sweep.stats.dispatched = 1
    /\ Len(groups) = 2
    /\ groups[1].status = "READY"
    /\ groups[1].dispatched_at = ReadyDispatchedAt
    /\ groups[2].status = "READY"
    /\ groups[2].dispatched_at > ReadyDispatchedAt

\* C36: the bulk update of _dispatch_group is a no-op write: every booking
\* bound to the dispatched group has the same status and the same grouped_at
\* after the dispatch as before it.
C36_RemarkIsNoOp ==
    [][ (sweep.pc = "bookings" /\ sweep'.pc # "bookings")
        => \A b \in DOMAIN bookings :
              bookings[b].group_id = sweep.group_id
              => /\ bookings'[b].request_status = bookings[b].request_status
                 /\ bookings'[b].grouped_at = bookings[b].grouped_at ]_vars

\* C37: once a group's first_user_joined_at has been set it keeps its value
\* for as long as the group exists, whatever joins and leaves follow.
C37_AnchorSetOnce ==
    [][ \A g \in GroupIds :
          (/\ RowExists(g)
           /\ groups[g].first_user_joined_at # None
           /\ groups'[g].status # "DELETED")
          => groups'[g].first_user_joined_at = groups[g].first_user_joined_at ]_vars

\* the score of the call that was made, with another wait or another size
ScoreAtWait(wait_time) ==
    calculate_final_probability(calculator.historical_prob, calculator.pending_count,
                                calculator.nearest_distance, wait_time,
                                calculator.current_size, calculator.max_size)

ScoreAtSize(current_size) ==
    calculate_final_probability(calculator.historical_prob, calculator.pending_count,
                                calculator.nearest_distance, calculator.wait_time,
                                current_size, calculator.max_size)

\* C38: with the other arguments fixed, the score does not rise when the
\* wait grows and does not fall when the group grows (up to max_size); it is
\* strictly lower at a wait of 600 s than at 60 s, and strictly higher at
\* 3/4 fill than at 1/4 fill.
C38_ScoreMonotone ==
    calculator.called =>
        /\ \A wait_time \in ScoreWaits :
              wait_time >= calculator.wait_time => ScoreAtWait(wait_time) <= calculator.result
        /\ \A current_size \in 0..calculator.max_size :
              current_size >= calculator.current_size
              => ScoreAtSize(current_size) >= calculator.result
        /\ calculator.wait_time = 60 => ScoreAtWait(600) < calculator.result
        /\ 4 * calculator.current_size = calculator.max_size
           => \A current_size \in 0..calculator.max_size :
                 4 * current_size = 3 * calculator.max_size
                 => ScoreAtSize(current_size) > calculator.result

\* the calculator has been called for a group of 1 of 4 that has waited one
\* minute: at ten minutes the score is 8.25 lower, with 3 of 4 it is 6 higher
C38_Witness ==
    /\ calculator.called
    /\ calculator.wait_time = 60
    /\ calculator.current_size = 1
    /\ calculator.max_size = 4
    /\ ScoreAtWait(600) = calculator.result - 825
    /\ ScoreAtSize(3) = calculator.result + 600

\* the groups whose wait began at this very instant: their first member has
\* just joined
FreshGroups ==
    { g \in GroupIds : /\ RowExists(g)
                       /\ groups[g].first_user_joined_at = now
                       /\ MembersOf(g) # {} }

\* the first sweep returns, no request having run since it began: every
\* group that is READY was FORMING when it began
SweepReturns == sweep.pc # "idle" /\ sweep'.pc = "idle" /\ sweep.runs = 1

RidesOf(g) == { r \in DOMAIN rides : rides[r].group_id = g }

\* an accept request of the driver is answered in this step
Answered(driver) == accepts[driver].pc # "returned" /\ accepts'[driver].pc = "returned"

\* C40: a READY group is accepted by at most one carrier.  Of the accept
\* requests of available drivers for one group, one after another or side by
\* side, at most one succeeds: the group has at most one ride and its
\* assigned_driver_id, once written, is never written again; every other
\* request is answered with not-found (404) and changes neither the group
\* nor the driver.
C40_AcceptedByAtMostOne ==
    /\ [](\A g \in GroupIds : Cardinality(RidesOf(g)) <= 1)
    /\ [][ \A g \in GroupIds :
             groups[g].assigned_driver_id # None
             => groups'[g].assigned_driver_id = groups[g].assigned_driver_id ]_vars
    /\ [][ \A driver \in AcceptDrivers :
             (Answered(driver) /\ is_available(driver))
             => IF accepts'[driver].status = 200
                THEN /\ groups[accepts'[driver].group_id].status = "READY"
                     /\ groups'[accepts'[driver].group_id].assigned_driver_id = driver
                ELSE /\ accepts'[driver].status = 404
                     /\ groups' = groups
                     /\ rides' = rides ]_vars

====
